---- MODULE Spec2Model ----
(***************************************************************************)
(* Model of the signal delivery store (src/src/server/signal_store.py),    *)
(* its HTTP handlers (src/src/server/signal_server.py) and the signal      *)
(* extractor (src/src/extraction/extractor.py).                            *)
(*                                                                         *)
(* Time is counted in whole units of the store's max_age: datetime.now()   *)
(* is the variable now, which never decreases.                             *)
(***************************************************************************)
EXTENDS Integers, Sequences, FiniteSets, TLC

VARIABLES
    signals,   \* SignalStore._signals: insertion-ordered dict, as a sequence of StoredSignal
    persistence_path,  \* SignalStore._persistence_path, fixed at construction
    file,      \* the persistence file
    now,       \* datetime.now()
    last,      \* the operation just performed: its name, argument, return value, HTTP response
    failures,  \* how many snapshot writes have failed so far
    swept,     \* history: keys of entries that a sweep has removed
    acked,     \* history: the entries (key, created_at) whose acknowledge returned True
    thr,       \* per thread: the call it is in and where it stands in it
    lock,      \* SignalStore._lock: owner and recursion count
    lin,       \* history: the store as the completed calls, run one after another, leave it
    trues,     \* history: per key, the add_signal calls that returned True since it was last absent
    config,    \* SignalExtractor.config: the weights, the per-channel multipliers, the threshold
    min_confidence,  \* SignalExtractor.min_confidence, in hundredths
    msg,       \* the message in hand: what PatternMatcher finds in its text
    out,       \* what extract_signal did with it: the Signal returned or the ValueError raised
    earlier,   \* history: what the call before did with the same message, when it has been extracted twice
    app,       \* the program that runs the message handler: main.py or the GUI's worker
    csv,       \* the signal CSV file: the message ids of its rows
    errors     \* the error log file: its entries

storeVars == <<signals, persistence_path, file, now, failures, last, swept, acked>>
concVars == <<thr, lock, lin, trues>>
sinkVars == <<app, csv, errors>>
extVars == <<config, min_confidence, msg, out, earlier, sinkVars>>
vars == <<storeVars, concVars, extVars>>

(* Python's None: where a number is expected, and where a string or a record is *)
None == -1
NoneStr == "None"

(* ------------------------------ bounds -------------------------------- *)
MaxMsgId == 2
MaxWriteFailures == 1

MsgIds == 1..MaxMsgId

(* timedelta(hours=max_age_hours), in the model's time unit *)
_max_age == 1

(* the clock runs until an entry made at time 0 is older than max_age *)
MaxTime == _max_age + 1

(* ------------------------------ inputs -------------------------------- *)
(* What an accepted message contributes to a Signal besides its id.  The  *)
(* second ladder has more rungs than a snapshot keeps.                    *)
PayloadA == [channel_username |-> "chA", symbol |-> "XAUUSD", take_profits |-> <<4730, 4720>>]
PayloadB == [channel_username |-> "chB", symbol |-> "EURUSD",
             take_profits |-> <<11, 12, 13, 14, 15>>]

(* Telegram numbers the messages of each channel on its own: chA has      *)
(* posted messages 1..MaxMsgId, chB only its message 1.                   *)
Payloads(message_id) == IF message_id = 1 THEN { PayloadA, PayloadB } ELSE { PayloadA }

Signal(message_id, p, t) ==
    [message_id |-> message_id,
     channel_username |-> p.channel_username,
     symbol |-> p.symbol,
     take_profits |-> p.take_profits,
     extracted_at |-> t]

(* str(int): the decimal digits *)
RECURSIVE str(_)
str(n) == IF n < 10 THEN <<n>> ELSE str(n \div 10) \o <<n % 10>>

(* message ids as they can appear in POST /signals/<message_id>/ack;     *)
(* <<0, 1>> is "01", which is not str(1).                                 *)
AckKeys == { str(n) : n \in MsgIds } \cup { <<0, 1>> }

SymbolFilters == { NoneStr, "XAUUSD", "EURUSD" }

(* ------------------------- store: pure parts -------------------------- *)
Keys(sigs) == { sigs[i].key : i \in 1..Len(sigs) }

Stored(sigs, k) == sigs[CHOOSE i \in 1..Len(sigs) : sigs[i].key = k]

StoredSignal(key, signal, t) ==
    [key |-> key, signal |-> signal, status |-> "pending",
     created_at |-> t, acknowledged_at |-> None]

(* add_signal without the duplicate check: the dict assignment replaces the entry *)
add_signal_overwrite(sigs, signal, t) ==
    LET message_id == str(signal.message_id)
        others(stored) == stored.key # message_id
    IN [signals |-> Append(SelectSeq(sigs, others), StoredSignal(message_id, signal, t)),
        ret |-> TRUE, persist |-> TRUE]

(* add_signal taking for a duplicate only a signal of the same channel *)
add_signal_per_channel(sigs, signal, t) ==
    LET message_id == str(signal.message_id) IN
    IF \E i \in 1..Len(sigs) :
           /\ sigs[i].key = message_id
           /\ sigs[i].signal.channel_username = signal.channel_username
    THEN [signals |-> sigs, ret |-> FALSE, persist |-> FALSE]
    ELSE [signals |-> Append(sigs, StoredSignal(message_id, signal, t)),
          ret |-> TRUE, persist |-> TRUE]

add_signal(sigs, signal, t) ==
    LET message_id == str(signal.message_id) IN
    IF message_id \in Keys(sigs)
    THEN [signals |-> sigs, ret |-> FALSE, persist |-> FALSE]
    ELSE [signals |-> Append(sigs, StoredSignal(message_id, signal, t)),
          ret |-> TRUE, persist |-> TRUE]

_signal_to_mt5_dict(signal) ==
    [message_id |-> str(signal.message_id),
     symbol |-> signal.symbol,
     take_profits |-> signal.take_profits,
     channel |-> signal.channel_username]

(* get_pending_signals without the status check *)
get_pending_signals_any_status(sigs, symbol) ==
    LET keep(stored) == ~(symbol # NoneStr /\ symbol # "" /\ stored.signal.symbol # symbol)
        kept == SelectSeq(sigs, keep)
    IN [i \in 1..Len(kept) |-> _signal_to_mt5_dict(kept[i].signal)]

(* get_pending_signals walking the dict from its newest entry *)
get_pending_signals_newest_first(sigs, symbol) ==
    LET keep(stored) ==
            /\ stored.status = "pending"
            /\ ~(symbol # NoneStr /\ symbol # "" /\ stored.signal.symbol # symbol)
        kept == SelectSeq(sigs, keep)
    IN [i \in 1..Len(kept) |-> _signal_to_mt5_dict(kept[Len(kept) + 1 - i].signal)]

get_pending_signals(sigs, symbol) ==
    LET keep(stored) ==
            /\ stored.status = "pending"
            /\ ~(symbol # NoneStr /\ symbol # "" /\ stored.signal.symbol # symbol)
        kept == SelectSeq(sigs, keep)
    IN [i \in 1..Len(kept) |-> _signal_to_mt5_dict(kept[i].signal)]

(* acknowledge_signal marking every stored entry instead of the one named *)
acknowledge_signal_all(sigs, message_id, t) ==
    IF message_id \notin Keys(sigs)
    THEN [signals |-> sigs, ret |-> FALSE, persist |-> FALSE]
    ELSE [signals |->
              [i \in 1..Len(sigs) |->
                  [sigs[i] EXCEPT !.status = "acknowledged", !.acknowledged_at = t]],
          ret |-> TRUE, persist |-> TRUE]

(* acknowledge_signal creating the entry it does not find *)
acknowledge_signal_upsert(sigs, message_id, t) ==
    IF message_id \notin Keys(sigs)
    THEN [signals |-> Append(sigs, [key |-> message_id,
                                    signal |-> Signal(0, PayloadA, t),
                                    status |-> "acknowledged",
                                    created_at |-> t, acknowledged_at |-> t]),
          ret |-> TRUE, persist |-> TRUE]
    ELSE [signals |->
              [i \in 1..Len(sigs) |->
                  IF sigs[i].key = message_id
                  THEN [sigs[i] EXCEPT !.status = "acknowledged", !.acknowledged_at = t]
                  ELSE sigs[i]],
          ret |-> TRUE, persist |-> TRUE]

acknowledge_signal(sigs, message_id, t) ==
    IF message_id \notin Keys(sigs)
    THEN [signals |-> sigs, ret |-> FALSE, persist |-> FALSE]
    ELSE [signals |->
              [i \in 1..Len(sigs) |->
                  IF sigs[i].key = message_id
                  THEN [sigs[i] EXCEPT !.status = "acknowledged", !.acknowledged_at = t]
                  ELSE sigs[i]],
          ret |-> TRUE, persist |-> TRUE]

get_signal_status(sigs, message_id) ==
    IF message_id \in Keys(sigs) THEN Stored(sigs, message_id).status ELSE NoneStr

(* cleanup_old_signals with >= for > *)
cleanup_old_signals_ge(sigs, t) ==
    LET old(stored) == t - stored.created_at >= _max_age
        young(stored) == ~old(stored)
        to_remove == SelectSeq(sigs, old)
    IN [signals |-> SelectSeq(sigs, young),
        ret |-> Len(to_remove),
        persist |-> Len(to_remove) > 0,
        removed |-> Keys(to_remove)]

cleanup_old_signals(sigs, t) ==
    LET old(stored) == t - stored.created_at > _max_age
        young(stored) == ~old(stored)
        to_remove == SelectSeq(sigs, old)
    IN [signals |-> SelectSeq(sigs, young),
        ret |-> Len(to_remove),
        persist |-> Len(to_remove) > 0,
        removed |-> Keys(to_remove)]

get_stats(sigs) ==
    [total |-> Len(sigs),
     pending |-> Cardinality({ i \in 1..Len(sigs) : sigs[i].status = "pending" }),
     acknowledged |-> Cardinality({ i \in 1..Len(sigs) : sigs[i].status = "acknowledged" })]

(* ---------------------------- persistence ----------------------------- *)
(* a JSON string holding an ISO date is <<"iso", t>>; JSON null is <<>> *)
null == <<>>
isoformat(t) == <<"iso", t>>
fromisoformat(s) == s[2]

TpOrNone(tps, i) == IF Len(tps) >= i THEN tps[i] ELSE None

to_dict(signal) ==
    [message_id |-> signal.message_id,
     channel_username |-> signal.channel_username,
     symbol |-> signal.symbol,
     take_profit_1 |-> TpOrNone(signal.take_profits, 1),
     take_profit_2 |-> TpOrNone(signal.take_profits, 2),
     take_profit_3 |-> TpOrNone(signal.take_profits, 3),
     take_profit_4 |-> TpOrNone(signal.take_profits, 4),
     extracted_at |-> isoformat(signal.extracted_at)]

(* The snapshot _persist builds: data["signals"], in dict order. *)
Snapshot(sigs) ==
    [i \in 1..Len(sigs) |->
        [key |-> sigs[i].key,
         signal |-> to_dict(sigs[i].signal),
         status |-> sigs[i].status,
         created_at |-> isoformat(sigs[i].created_at),
         acknowledged_at |-> IF sigs[i].acknowledged_at # None
                             THEN isoformat(sigs[i].acknowledged_at) ELSE null]]

(* What the write of a snapshot leaves in the file.  "ok": json.dump ran   *)
(* to the end.  "unwritten": mkdir or open raised, the old file stays.     *)
(* "truncated": open(path, 'w') emptied the file and the dump raised.      *)
WriteOutcomes == { "ok", "unwritten", "truncated" }

WriteFile(f, data, outcome) ==
    CASE outcome = "ok" -> [state |-> "ok", data |-> data]
      [] outcome = "truncated" -> [state |-> "corrupt", data |-> <<>>]
      [] OTHER -> f

(* the file after _persist; every exception is caught and printed *)
_persist(path, f, sigs, outcome) ==
    IF path = NoneStr THEN f ELSE WriteFile(f, Snapshot(sigs), outcome)

LoadSignal(d, t) ==
    LET tps == <<d.take_profit_1, d.take_profit_2, d.take_profit_3, d.take_profit_4>>
        given(tp) == tp # None
    IN [message_id |-> d.message_id,
        channel_username |-> d.channel_username,
        symbol |-> d.symbol,
        take_profits |-> SelectSeq(tps, given),
        extracted_at |-> t]

_load_from_file(path, f, t) ==
    IF path = NoneStr \/ f.state # "ok"
    THEN <<>>
    ELSE LET loaded == [i \in 1..Len(f.data) |->
                 [key |-> f.data[i].key,
                  signal |-> LoadSignal(f.data[i].signal, t),
                  status |-> f.data[i].status,
                  created_at |-> fromisoformat(f.data[i].created_at),
                  acknowledged_at |-> IF f.data[i].acknowledged_at # null
                                      THEN fromisoformat(f.data[i].acknowledged_at)
                                      ELSE None]]
             fresh(stored) == t - stored.created_at < _max_age
         IN SelectSeq(loaded, fresh)

(* ----------------------------- HTTP layer ----------------------------- *)
_handle_acknowledge(message_id, success) ==
    IF success
    THEN [code |-> 200, body |-> [status |-> "acknowledged", message_id |-> message_id]]
    ELSE [code |-> 404, body |-> [error |-> "not found", message_id |-> message_id]]

_handle_get_signals(found) ==
    [code |-> 200, body |-> [signals |-> found, count |-> Len(found)]]

(* ----------------------------- extraction ---------------------------- *)
(* Prices are whole numbers of 0.0001, the smallest pip; scores are in    *)
(* thousandths before round(score, 2) and in hundredths after it.         *)
Unit == 10000

(* a test for None in the place of bool(x): 0.0 counts as a price *)
Truthy_not_none(x) == x # None

(* bool(x) of an Optional[float] *)
Truthy(x) == x # None /\ x # 0

(* the default extraction configuration: weights in thousandths, the      *)
(* threshold in hundredths, no channel with a multiplier of its own       *)
DefaultConfig ==
    [min_confidence |-> 75,
     confidence_weights |->
         [symbol |-> 250, direction |-> 250, entry |-> 200, stop_loss |-> 150,
          take_profit |-> 150, channel_confidence |-> 0],
     channel_confidence |-> [c \in {} |-> 100]]

(* SignalExtractor.confidence_weights, in thousandths *)
confidence_weights == config.confidence_weights

(* every channel taken for one without a multiplier of its own *)
channel_confidence_unknown(channel_username) == 100

(* SignalExtractor.channel_confidence.get(channel_username, 1.0), in hundredths *)
channel_confidence(channel_username) ==
    IF channel_username \in DOMAIN config.channel_confidence
    THEN config.channel_confidence[channel_username]
    ELSE 100

(* round(score, 2) of the float sum of the weights.  A sum that ends in 5 *)
(* thousandths goes up or down as its double does.                        *)
round_score(score) ==
    IF score % 10 < 5 THEN score \div 10
    ELSE IF score % 10 > 5 THEN score \div 10 + 1
    ELSE CASE score = 75 -> 7
           [] score = 225 -> 22
           [] score = 275 -> 28
           [] score = 325 -> 33
           [] score = 425 -> 42
           [] score = 475 -> 48
           [] score = 525 -> 53
           [] score = 575 -> 57
           [] score = 675 -> 67
           [] score = 725 -> 72
           [] score = 775 -> 77
           [] score = 925 -> 92

(* round(price, 2): to the nearest 0.01, a half to the even hundredth *)
round_price(x) ==
    LET r == x % 100
        down == x - r
    IN IF r < 50 THEN down
       ELSE IF r > 50 THEN down + 100
       ELSE IF (down \div 100) % 2 = 0 THEN down ELSE down + 100

_get_pip_value(symbol) ==
    IF symbol \in { "XAUUSD", "GOLD" } THEN 1000
    ELSE IF symbol \in { "USDJPY" } THEN 100
    ELSE 1

_calculate_tp_from_pips(entry_price, direction, tp_pips, symbol) ==
    LET pip_value == _get_pip_value(IF symbol = NoneStr THEN "XAUUSD" ELSE symbol)
        min_pips == tp_pips[1]
        max_pips == tp_pips[2]
        sign == IF direction = "BUY" THEN 1 ELSE -1
    IN <<round_price(entry_price + sign * min_pips * pip_value)>> \o
       (IF Truthy(max_pips)
        THEN <<round_price(entry_price + sign * max_pips * pip_value)>>
        ELSE <<>>)

_calculate_confidence(extracted_fields, channel_username) ==
    LET w == confidence_weights
        f == extracted_fields
        score ==
            (IF f.symbol # NoneStr THEN w.symbol ELSE 0)
          + (IF f.direction # NoneStr THEN w.direction ELSE 0)
          + (IF Truthy(f.entry_price)
                \/ (Truthy(f.entry_price_min) /\ Truthy(f.entry_price_max))
             THEN w.entry ELSE 0)
          + (IF Truthy(f.stop_loss) THEN w.stop_loss ELSE 0)
          + (IF Len(f.take_profits) >= 2 THEN w.take_profit
             ELSE IF Len(f.take_profits) = 1 THEN w.take_profit \div 2
             ELSE 0)
          + (IF w.channel_confidence > 0 /\ channel_username # ""
             THEN (w.channel_confidence * channel_confidence(channel_username)) \div 100
             ELSE 0)
    IN round_score(score)

(* the notes of the setup corrector *)
NoteBuyToSell == "Direction corrected BUY->SELL (TPs below entry), confidence reduced 30%"
NoteSellToBuy == "Direction corrected SELL->BUY (TPs above entry), confidence reduced 30%"
NoteBuyContradictory == "Contradictory setup: BUY with TPs below entry AND SL below entry"
NoteSellContradictory == "Contradictory setup: SELL with TPs above entry AND SL above entry"
NoteMixed == "Contradictory setup: TPs both above and below entry"

(* the penalty without the floor at 0 *)
Penalised_unfloored(confidence) == confidence - 30

(* a penalty of 0.20 for the 0.30 *)
Penalised_by_20(confidence) == IF confidence - 20 > 0 THEN confidence - 20 ELSE 0

(* max(0, confidence - 0.30), rounded to two decimals *)
Penalised(confidence) == IF confidence - 30 > 0 THEN confidence - 30 ELSE 0

(* a corrector that takes the 0.30 off and leaves the direction as stated *)
_validate_and_correct_setup_keeps_direction(direction, entry_single, entry_min, entry_max, stop_loss, take_profits, confidence) ==
    LET unchanged == [direction |-> direction, confidence |-> confidence, notes |-> ""]
        entry_ref == IF Truthy(entry_single) THEN entry_single
                     ELSE (entry_min + entry_max) \div 2
        valid(tp) == Truthy(tp) /\ tp > 0
        valid_tps == SelectSeq(take_profits, valid)
        tps_above == Cardinality({ i \in 1..Len(valid_tps) : valid_tps[i] > entry_ref })
        tps_below == Cardinality({ i \in 1..Len(valid_tps) : valid_tps[i] < entry_ref })
        sell_setup == tps_below > 0 /\ tps_above = 0
                          /\ (~Truthy(stop_loss) \/ stop_loss > entry_ref)
        buy_setup == tps_above > 0 /\ tps_below = 0
                         /\ (~Truthy(stop_loss) \/ stop_loss < entry_ref)
    IN IF direction = NoneStr THEN unchanged
       ELSE IF ~Truthy(entry_single) /\ ~(Truthy(entry_min) /\ Truthy(entry_max))
       THEN unchanged
       ELSE IF direction = "BUY" /\ sell_setup
       THEN [direction |-> direction, confidence |-> Penalised(confidence), notes |-> NoteBuyToSell]
       ELSE IF direction = "SELL" /\ buy_setup
       THEN [direction |-> direction, confidence |-> Penalised(confidence), notes |-> NoteSellToBuy]
       ELSE unchanged

_validate_and_correct_setup(direction, entry_single, entry_min, entry_max, stop_loss, take_profits, confidence) ==
    LET unchanged == [direction |-> direction, confidence |-> confidence, notes |-> ""]
        entry_ref == IF Truthy(entry_single) THEN entry_single
                     ELSE (entry_min + entry_max) \div 2
        valid(tp) == Truthy(tp) /\ tp > 0
        valid_tps == SelectSeq(take_profits, valid)
        tps_above == Cardinality({ i \in 1..Len(valid_tps) : valid_tps[i] > entry_ref })
        tps_below == Cardinality({ i \in 1..Len(valid_tps) : valid_tps[i] < entry_ref })
        sl_above == Truthy(stop_loss) /\ stop_loss > entry_ref
        sl_below == Truthy(stop_loss) /\ stop_loss < entry_ref
        zeroed(notes) == [direction |-> direction, confidence |-> 0, notes |-> notes]
        flipped(to, notes) ==
            [direction |-> to, confidence |-> Penalised(confidence), notes |-> notes]
    IN IF direction = NoneStr THEN unchanged
       ELSE IF ~Truthy(entry_single) /\ ~(Truthy(entry_min) /\ Truthy(entry_max))
       THEN unchanged
       ELSE IF direction = "BUY"
       THEN IF ~(tps_above > tps_below) /\ valid_tps # <<>>
            THEN IF tps_below > 0 /\ tps_above = 0
                 THEN IF sl_above \/ ~Truthy(stop_loss)
                      THEN flipped("SELL", NoteBuyToSell)
                      ELSE zeroed(NoteBuyContradictory)
                 ELSE IF tps_above > 0 /\ tps_below > 0
                 THEN zeroed(NoteMixed)
                 ELSE unchanged
            ELSE unchanged
       ELSE IF direction = "SELL"
       THEN IF ~(tps_below > tps_above) /\ valid_tps # <<>>
            THEN IF tps_above > 0 /\ tps_below = 0
                 THEN IF sl_below \/ ~Truthy(stop_loss)
                      THEN flipped("BUY", NoteSellToBuy)
                      ELSE zeroed(NoteSellContradictory)
                 ELSE IF tps_above > 0 /\ tps_below > 0
                 THEN zeroed(NoteMixed)
                 ELSE unchanged
            ELSE unchanged
       ELSE unchanged

(* Signal.has_entry *)
has_entry(signal) ==
    signal.entry_price # None
        \/ (signal.entry_price_min # None /\ signal.entry_price_max # None)

(* Signal.get_entry_average *)
get_entry_average(signal) ==
    IF signal.entry_price # None THEN signal.entry_price
    ELSE IF signal.entry_price_min # None /\ signal.entry_price_max # None
    THEN (signal.entry_price_min + signal.entry_price_max) \div 2
    ELSE None

(* the message of the ValueError a check raises, "" when it passes *)
_validate_required_fields(signal) ==
    IF signal.symbol = "" THEN "Missing required field: symbol"
    ELSE IF signal.direction = "" THEN "Missing required field: direction"
    ELSE IF signal.direction \notin { "BUY", "SELL" } THEN "Invalid direction"
    ELSE IF ~has_entry(signal) THEN "Missing entry price information"
    ELSE ""

(* the check of the take-profit ordering, which follows the two checks    *)
(* modelled here, raises nothing: it only calls logger.warning            *)
_validate_price_logic(signal) ==
    LET entry_price == get_entry_average(signal)
        tps == signal.take_profits
        sl_wrong ==
            /\ Truthy(signal.stop_loss)
            /\ \/ signal.direction = "BUY" /\ signal.stop_loss >= entry_price
               \/ signal.direction = "SELL" /\ signal.stop_loss <= entry_price
        tp_wrong ==
            \E i \in 1..Len(tps) :
                \/ signal.direction = "BUY" /\ tps[i] <= entry_price
                \/ signal.direction = "SELL" /\ tps[i] >= entry_price
    IN IF entry_price = None THEN ""
       ELSE IF sl_wrong
       THEN (IF signal.direction = "BUY" THEN "BUY signal: Stop loss should be below entry"
             ELSE "SELL signal: Stop loss should be above entry")
       ELSE IF tp_wrong
       THEN (IF signal.direction = "BUY" THEN "BUY signal: TP should be above entry"
             ELSE "SELL signal: TP should be below entry")
       ELSE ""

_validate_entry_range(signal) ==
    IF /\ Truthy(signal.entry_price_min) /\ Truthy(signal.entry_price_max)
       /\ signal.entry_price_min >= signal.entry_price_max
    THEN "Entry min should be less than max"
    ELSE ""

(* SignalValidator.validate_signal: the message of the ValueError it      *)
(* raises, "" when it returns True                                        *)
validate_signal(signal) ==
    IF _validate_required_fields(signal) # "" THEN _validate_required_fields(signal)
    ELSE IF _validate_price_logic(signal) # "" THEN _validate_price_logic(signal)
    ELSE _validate_entry_range(signal)

(* the threshold test with <= for < *)
ConfidenceBelowThreshold_le(confidence, threshold) == confidence <= threshold

(* if confidence < self.min_confidence: raise ValueError *)
ConfidenceBelowThreshold(confidence, threshold) == confidence < threshold

ThresholdError == "Confidence score below threshold"

(* tp_pips of a message that gives no take-profit in pips *)
NoPips == <<>>

(* the take-profits of a message: the absolute prices found, or the pips  *)
(* turned into prices when there is none.  The entry reference is the     *)
(* expression of line 112, which Python reads as                          *)
(* (entry_single or midpoint) if entry_min and entry_max else None.       *)
resolved_take_profits(m) ==
    LET entry_ref ==
            IF Truthy(m.entry_price_min) /\ Truthy(m.entry_price_max)
            THEN (IF Truthy(m.entry_price) THEN m.entry_price
                  ELSE (m.entry_price_min + m.entry_price_max) \div 2)
            ELSE None
    IN IF m.take_profits = <<>> /\ m.tp_pips # NoPips
              /\ Truthy(entry_ref) /\ m.direction # NoneStr
       THEN _calculate_tp_from_pips(entry_ref, m.direction, m.tp_pips, m.symbol)
       ELSE m.take_profits

(* the dictionary extract_signal fills from the pattern matcher's finds *)
extracted_fields(m) ==
    [symbol |-> m.symbol, direction |-> m.direction, entry_price |-> m.entry_price,
     entry_price_min |-> m.entry_price_min, entry_price_max |-> m.entry_price_max,
     stop_loss |-> m.stop_loss, take_profits |-> resolved_take_profits(m)]

(* the setup corrector as extract_signal calls it, on the message's score *)
corrected_setup(m) ==
    _validate_and_correct_setup(m.direction, m.entry_price, m.entry_price_min, m.entry_price_max, m.stop_loss, resolved_take_profits(m), _calculate_confidence(extracted_fields(m), m.channel_username))

(* extract_signal on the fields m that the pattern matcher finds in the   *)
(* text: [kind |-> "Signal", signal |-> the Signal returned] or           *)
(* [kind |-> "ValueError", reason |-> its message]                        *)
extract_signal(m, threshold, t) ==
    LET setup == corrected_setup(m)
        signal ==
            [message_id |-> m.message_id,
             channel_username |-> m.channel_username,
             symbol |-> IF m.symbol = NoneStr THEN "" ELSE m.symbol,
             direction |-> IF setup.direction = NoneStr THEN "" ELSE setup.direction,
             entry_price |-> m.entry_price,
             entry_price_min |-> m.entry_price_min,
             entry_price_max |-> m.entry_price_max,
             stop_loss |-> m.stop_loss,
             take_profits |-> resolved_take_profits(m),
             confidence_score |-> setup.confidence,
             extraction_notes |-> IF setup.notes # "" THEN <<setup.notes>> ELSE <<>>,
             extracted_at |-> t]
        e == validate_signal(signal)
        \* extraction_notes is the list of the pieces the code joins with "; "
        noted == IF e # ""
                 THEN [signal EXCEPT !.extraction_notes = @ \o <<"Validation warning: ", e>>]
                 ELSE signal
    IN IF ConfidenceBelowThreshold(setup.confidence, threshold)
       THEN [kind |-> "ValueError", reason |-> ThresholdError]
       ELSE [kind |-> "Signal", signal |-> noted]

(* what the pattern matcher can find in a message; prices around 2000 *)
Symbols == { NoneStr, "XAUUSD" }
Directions == { NoneStr, "BUY", "SELL" }

(* extract_entry: nothing, a single price (0 too), or a range min <= max *)
Entries ==
    { <<None, None, None>>, <<2000 * Unit, None, None>>, <<0, None, None>>,
      <<None, 1990 * Unit, 2010 * Unit>>, <<None, 2000 * Unit, 2000 * Unit>> }

(* extract_stop_loss: nothing, "SL 0", below, at and above the entry *)
StopLosses == { None, 0, 1990 * Unit, 2000 * Unit, 2010 * Unit }

(* extract_take_profits: "TP1: 2010", "TP2: 2020", ...; <<0>> is "TP1: 0" *)
TakeProfitLists ==
    { <<>>, <<2010 * Unit>>, <<1990 * Unit>>, <<2000 * Unit>>, <<0>>,
      <<2010 * Unit, 2020 * Unit>>, <<1990 * Unit, 1980 * Unit>>,
      <<2020 * Unit, 2010 * Unit>>,
      <<2010 * Unit, 1990 * Unit>>, <<2010 * Unit, 2020 * Unit, 1990 * Unit>>,
      <<1990 * Unit, 1980 * Unit, 2010 * Unit>> }

(* extract_take_profits_pips: "TP 3-9pips", "TP 3pips", "TP 30-100pips" *)
TpPips == { <<3, 9>>, <<3, None>>, <<30, 100>> }

(* extract_take_profits on a text that gives its take-profits in pips: the *)
(* numbered pattern, "tp", a number, a price, reads a minimum of two       *)
(* digits or more as a take-profit number followed by a price of one       *)
(* digit, "TP 30" as TP3 at 0.0                                            *)
extract_take_profits_of_pips(tp_pips) ==
    IF tp_pips[1] >= 10 THEN <<(tp_pips[1] % 10) * Unit>> ELSE <<>>

(* the symbols of the messages that give their take-profits in pips *)
PipSymbols == { NoneStr, "XAUUSD", "EURUSD", "USDJPY" }

MinConfidences == { 0, 70, 75 }

(* a configuration that trusts channels: a tenth of the score is the      *)
(* channel's, and chA is given 0.8 of it                                  *)
ChannelConfig ==
    [min_confidence |-> 75,
     confidence_weights |->
         [symbol |-> 200, direction |-> 200, entry |-> 200, stop_loss |-> 140,
          take_profit |-> 160, channel_confidence |-> 100],
     channel_confidence |-> [c \in { "chA" } |-> 80]]

(* a configuration that puts most of the weight on symbol and stop-loss   *)
SymbolHeavyConfig ==
    [min_confidence |-> 0,
     confidence_weights |->
         [symbol |-> 400, direction |-> 100, entry |-> 100, stop_loss |-> 300,
          take_profit |-> 100, channel_confidence |-> 0],
     channel_confidence |-> [c \in {} |-> 100]]

(* the configurations an extractor is built with *)
Configs ==
    { [DefaultConfig EXCEPT !.min_confidence = m] : m \in MinConfidences }
        \cup { ChannelConfig, SymbolHeavyConfig }

(* what the pattern matcher finds in a message of chA, which gives its    *)
(* take-profits as prices or not at all                                   *)
PriceMessages ==
    { [message_id |-> 1, channel_username |-> "chA", symbol |-> symbol, direction |-> direction,
       entry_price |-> entry[1], entry_price_min |-> entry[2], entry_price_max |-> entry[3],
       stop_loss |-> stop_loss, take_profits |-> take_profits, tp_pips |-> NoPips] :
        symbol \in Symbols, direction \in Directions, entry \in Entries,
        stop_loss \in StopLosses, take_profits \in TakeProfitLists }

(* and in a message of chB, which gives them in pips *)
PipMessages ==
    { [message_id |-> 1, channel_username |-> "chB", symbol |-> symbol, direction |-> direction,
       entry_price |-> entry[1], entry_price_min |-> entry[2], entry_price_max |-> entry[3],
       stop_loss |-> stop_loss, take_profits |-> extract_take_profits_of_pips(tp_pips),
       tp_pips |-> tp_pips] :
        symbol \in PipSymbols, direction \in Directions,
        entry \in { <<None, None, None>>, <<2000 * Unit, None, None>>,
                    <<None, 1990 * Unit, 2010 * Unit>> },
        stop_loss \in { None, 1990 * Unit }, tp_pips \in TpPips }

Messages == PriceMessages \cup PipMessages

(* no message in hand, nothing extracted *)
NoMessage == [message_id |-> 0]
NoOutcome == [kind |-> "none"]

(* ------------------------------ actions ------------------------------- *)
PersistencePath == "data/signal_store.json"

(* the threads that call the store: the Telegram producer and the HTTP   *)
(* server's thread                                                        *)
Threads == { "producer", "handler" }

(* the value a call of op returns, under the name of its Python type *)
Returned(op, value) ==
    CASE op \in { "add_signal", "acknowledge_signal" } -> [bool |-> value]
      [] op = "get_signal_status" -> [status |-> value]
      [] op = "get_pending_signals" -> [list |-> value]
      [] op = "get_stats" -> [dict |-> value]
      [] op = "cleanup_old_signals" -> [int |-> value]
      [] OTHER -> [none |-> value]

(* a thread outside every store call: no signal in hand, nothing returned *)
Idle == [pc |-> "idle", op |-> NoneStr, key |-> <<>>, signal |-> Signal(0, PayloadA, 0),
         symbol |-> NoneStr, t |-> None, todo |-> <<>>, acc |-> <<>>,
         ret |-> Returned(NoneStr, NoneStr), raced |-> FALSE]

InitStore ==
    /\ msg = NoMessage
    /\ out = NoOutcome
    /\ earlier = NoOutcome
    /\ csv = {}
    /\ errors = {}
    /\ thr = [t \in Threads |-> Idle]
    /\ lock = [owner |-> NoneStr, count |-> 0]
    /\ lin = <<>>
    /\ trues = [k \in AckKeys |-> 0]
    /\ signals = <<>>
    /\ file = [state |-> "absent", data |-> <<>>]
    /\ now = 0
    /\ failures = 0
    /\ last = [op |-> "init", arg |-> NoneStr, ret |-> NoneStr, resp |-> NoneStr]
    /\ swept = {}
    /\ acked = {}

(* SignalStore() without a persistence path, as run_server() builds it *)
Init ==
    /\ persistence_path = NoneStr
    /\ config = DefaultConfig
    /\ min_confidence = config.min_confidence
    /\ app = "main"
    /\ InitStore

(* the application's store: main.py and gui/worker.py give it a path *)
InitPersist ==
    /\ persistence_path = PersistencePath
    /\ config = DefaultConfig
    /\ min_confidence = config.min_confidence
    /\ app = "main"
    /\ InitStore

Failed(outcome) == outcome \in { "unwritten", "truncated" }

Outcomes(persist) ==
    IF ~persist \/ persistence_path = NoneStr THEN { "none" }
    ELSE IF failures < MaxWriteFailures THEN WriteOutcomes
    ELSE { "ok" }

Written(outcome) == failures' = IF Failed(outcome) THEN failures + 1 ELSE failures

(* on_new_message -> SignalStore.add_signal *)
AddSignal ==
    \E message_id \in MsgIds : \E p \in Payloads(message_id) :
        LET signal == Signal(message_id, p, now)
            r == add_signal(signals, signal, now)
        IN \E outcome \in Outcomes(r.persist) :
            /\ signals' = r.signals
            /\ file' = _persist(persistence_path, file, r.signals, outcome)
            /\ Written(outcome)
            /\ last' = [op |-> "add", arg |-> signal, ret |-> r.ret, resp |-> NoneStr]
            /\ UNCHANGED <<persistence_path, now, swept, acked, concVars, extVars>>

(* GET /signals?symbol=... *)
GetPendingSignals ==
    \E symbol \in SymbolFilters :
        LET found == get_pending_signals(signals, symbol) IN
        /\ last' = [op |-> "get", arg |-> symbol, ret |-> found,
                    resp |-> _handle_get_signals(found)]
        /\ UNCHANGED <<signals, persistence_path, file, now, failures, swept, acked, concVars, extVars>>

(* POST /signals/<message_id>/ack *)
HandleAcknowledge ==
    \E message_id \in AckKeys :
        LET r == acknowledge_signal(signals, message_id, now) IN
        \E outcome \in Outcomes(r.persist) :
            /\ signals' = r.signals
            /\ file' = _persist(persistence_path, file, r.signals, outcome)
            /\ Written(outcome)
            /\ last' = [op |-> "ack", arg |-> message_id, ret |-> r.ret,
                        resp |-> _handle_acknowledge(message_id, r.ret)]
            /\ acked' = IF r.ret
                        THEN acked \cup { [key |-> message_id,
                                           created_at |-> Stored(r.signals, message_id).created_at] }
                        ELSE acked
            /\ UNCHANGED <<persistence_path, now, swept, concVars, extVars>>

CleanupOldSignals ==
    LET r == cleanup_old_signals(signals, now) IN
    \E outcome \in Outcomes(r.persist) :
        /\ signals' = r.signals
        /\ file' = _persist(persistence_path, file, r.signals, outcome)
        /\ Written(outcome)
        /\ last' = [op |-> "cleanup", arg |-> NoneStr, ret |-> r.ret, resp |-> NoneStr]
        /\ swept' = swept \cup r.removed
        /\ acked' = { a \in acked : a.key \notin r.removed }
        /\ UNCHANGED <<persistence_path, now, concVars, extVars>>

(* GET /stats *)
GetStats ==
    /\ last' = [op |-> "stats", arg |-> NoneStr, ret |-> get_stats(signals), resp |-> NoneStr]
    /\ UNCHANGED <<signals, persistence_path, file, now, failures, swept, acked, concVars, extVars>>

(* the clock advances *)
Tick ==
    /\ now < MaxTime
    /\ now' = now + 1
    /\ last' = [op |-> "tick", arg |-> NoneStr, ret |-> NoneStr, resp |-> NoneStr]
    /\ UNCHANGED <<signals, persistence_path, file, failures, swept, acked, concVars, extVars>>

(* the process ends and a new one runs SignalStore.__init__ on the same file *)
Restart ==
    /\ signals' = _load_from_file(persistence_path, file, now)
    /\ last' = [op |-> "restart", arg |-> NoneStr, ret |-> NoneStr, resp |-> NoneStr]
    /\ UNCHANGED <<persistence_path, file, now, failures, swept, acked, concVars, extVars>>

Next ==
    \/ AddSignal
    \/ GetPendingSignals
    \/ HandleAcknowledge
    \/ CleanupOldSignals
    \/ GetStats
    \/ Tick

NextPersist ==
    \/ Next
    \/ Restart

Spec == Init /\ [][Next]_vars

SpecPersist == InitPersist /\ [][NextPersist]_vars

(* --------------------------- concurrent calls ------------------------- *)
(* a lock that never blocks *)
RLock_available_always(l, t) == TRUE

(* threading.RLock: free, or held by the thread that asks for it *)
RLock_available(l, t) == l.owner = NoneStr \/ l.owner = t

RLock_acquire(l, t) == [owner |-> t, count |-> IF l.owner = t THEN l.count + 1 ELSE 1]

(* a release that leaves the lock with its owner *)
RLock_release_keeps(l, t) == l

RLock_release(l, t) ==
    IF l.owner = t /\ l.count > 1 THEN [l EXCEPT !.count = l.count - 1]
    ELSE [owner |-> NoneStr, count |-> 0]

(* self._signals[k] = v: a held key keeps its place, a new one goes last *)
dict_set(sigs, k, v) ==
    IF k \in Keys(sigs)
    THEN [i \in 1..Len(sigs) |-> IF sigs[i].key = k THEN v ELSE sigs[i]]
    ELSE Append(sigs, v)

(* del self._signals[k] *)
dict_del(sigs, k) ==
    LET others(stored) == stored.key # k IN SelectSeq(sigs, others)

(* the statements of a call that run inside "with self._lock" *)
Inside == { "add_check", "add_insert", "ack_check", "ack_status", "ack_time", "status_read",
            "pending_read", "stats_pending", "stats_acknowledged", "stats_total",
            "cleanup_scan", "cleanup_delete", "release" }

FirstStatement(op) ==
    CASE op = "add_signal" -> "add_check"
      [] op = "acknowledge_signal" -> "ack_check"
      [] op = "get_signal_status" -> "status_read"
      [] op = "get_pending_signals" -> "pending_read"
      [] op = "get_stats" -> "stats_pending"
      [] op = "cleanup_old_signals" -> "cleanup_scan"

(* what the call of thread record c returns, and the store it leaves, when *)
(* the whole call runs alone on store sigs                                 *)
Sequential(sigs, c) ==
    CASE c.op = "add_signal" -> add_signal(sigs, c.signal, c.t)
      [] c.op = "acknowledge_signal" -> acknowledge_signal(sigs, c.key, c.t)
      [] c.op = "get_signal_status" ->
             [signals |-> sigs, ret |-> get_signal_status(sigs, c.key)]
      [] c.op = "get_pending_signals" ->
             [signals |-> sigs, ret |-> get_pending_signals(sigs, c.symbol)]
      [] c.op = "get_stats" -> [signals |-> sigs, ret |-> get_stats(sigs)]
      [] c.op = "cleanup_old_signals" -> cleanup_old_signals(sigs, c.t)

StoreUntouched ==
    UNCHANGED <<signals, persistence_path, file, now, failures, last, swept, acked, extVars>>

Enter(t, op) == [Idle EXCEPT !.pc = "acquire", !.op = op]

(* history: while this add_signal is called, another thread holds the lock *)
(* in an add_signal for the same message_id that found no duplicate        *)
Raced(message_id) ==
    \E u \in Threads :
        /\ lock.owner = u
        /\ thr[u].op = "add_signal"
        /\ thr[u].key = message_id
        /\ thr[u].pc = "add_insert" \/ (thr[u].pc = "release" /\ thr[u].ret = Returned("add_signal", TRUE))

(* a thread calls an operation of the store *)
Call(t) ==
    /\ thr[t].pc = "idle"
    /\ \/ \E message_id \in MsgIds :
              thr' = [thr EXCEPT ![t] = [Enter(t, "add_signal") EXCEPT
                          !.signal = Signal(message_id, PayloadA, 0),
                          !.key = str(message_id),
                          !.raced = Raced(str(message_id))]]
       \/ \E message_id \in MsgIds :
              thr' = [thr EXCEPT ![t] = [Enter(t, "acknowledge_signal") EXCEPT
                          !.key = str(message_id)]]
       \/ \E message_id \in AckKeys :
              thr' = [thr EXCEPT ![t] = [Enter(t, "get_signal_status") EXCEPT
                          !.key = message_id]]
       \/ thr' = [thr EXCEPT ![t] = Enter(t, "get_pending_signals")]
       \/ thr' = [thr EXCEPT ![t] = Enter(t, "get_stats")]
       \/ thr' = [thr EXCEPT ![t] = Enter(t, "cleanup_old_signals")]
    /\ UNCHANGED <<lock, lin, trues>>
    /\ StoreUntouched

(* with self._lock: *)
Acquire(t) ==
    /\ thr[t].pc = "acquire"
    /\ RLock_available(lock, t)
    /\ lock' = RLock_acquire(lock, t)
    /\ thr' = [thr EXCEPT ![t].pc = FirstStatement(thr[t].op)]
    /\ UNCHANGED <<lin, trues>>
    /\ StoreUntouched

(* add_signal: if message_id in self._signals: return False *)
AddCheck(t) ==
    /\ thr[t].pc = "add_check"
    /\ thr' = IF thr[t].key \in Keys(signals)
              THEN [thr EXCEPT ![t].ret = Returned(thr[t].op, FALSE), ![t].pc = "release"]
              ELSE [thr EXCEPT ![t].pc = "add_insert"]
    /\ UNCHANGED <<lock, lin, trues>>
    /\ StoreUntouched

(* add_signal: self._signals[message_id] = StoredSignal(signal=signal);    *)
(* self._persist(); return True                                            *)
AddInsert(t) ==
    /\ thr[t].pc = "add_insert"
    /\ signals' = dict_set(signals, thr[t].key, StoredSignal(thr[t].key, thr[t].signal, now))
    /\ \E outcome \in Outcomes(TRUE) :
           /\ file' = _persist(persistence_path, file, signals', outcome)
           /\ Written(outcome)
    /\ thr' = [thr EXCEPT ![t].t = now, ![t].ret = Returned(thr[t].op, TRUE), ![t].pc = "release"]
    /\ UNCHANGED <<lock, lin, trues>>
    /\ UNCHANGED <<persistence_path, now, last, swept, acked, extVars>>

(* acknowledge_signal: if message_id not in self._signals: return False *)
AckCheck(t) ==
    /\ thr[t].pc = "ack_check"
    /\ thr' = IF thr[t].key \notin Keys(signals)
              THEN [thr EXCEPT ![t].ret = Returned(thr[t].op, FALSE), ![t].pc = "release"]
              ELSE [thr EXCEPT ![t].pc = "ack_status"]
    /\ UNCHANGED <<lock, lin, trues>>
    /\ StoreUntouched

(* acknowledge_signal: self._signals[message_id].status = "acknowledged" *)
AckStatus(t) ==
    /\ thr[t].pc = "ack_status"
    /\ signals' = [i \in 1..Len(signals) |->
                      IF signals[i].key = thr[t].key
                      THEN [signals[i] EXCEPT !.status = "acknowledged"]
                      ELSE signals[i]]
    /\ thr' = [thr EXCEPT ![t].pc = "ack_time"]
    /\ UNCHANGED <<lock, lin, trues>>
    /\ UNCHANGED <<persistence_path, file, now, failures, last, swept, acked, extVars>>

(* acknowledge_signal: self._signals[message_id].acknowledged_at =         *)
(* datetime.now(); self._persist(); return True                            *)
AckTime(t) ==
    /\ thr[t].pc = "ack_time"
    /\ signals' = [i \in 1..Len(signals) |->
                      IF signals[i].key = thr[t].key
                      THEN [signals[i] EXCEPT !.acknowledged_at = now]
                      ELSE signals[i]]
    /\ \E outcome \in Outcomes(TRUE) :
           /\ file' = _persist(persistence_path, file, signals', outcome)
           /\ Written(outcome)
    /\ thr' = [thr EXCEPT ![t].t = now, ![t].ret = Returned(thr[t].op, TRUE), ![t].pc = "release"]
    /\ UNCHANGED <<lock, lin, trues>>
    /\ UNCHANGED <<persistence_path, now, last, swept, acked, extVars>>

(* get_signal_status *)
StatusRead(t) ==
    /\ thr[t].pc = "status_read"
    /\ thr' = [thr EXCEPT ![t].ret = Returned(thr[t].op, get_signal_status(signals, thr[t].key)),
                          ![t].pc = "release"]
    /\ UNCHANGED <<lock, lin, trues>>
    /\ StoreUntouched

(* get_pending_signals: the loop over self._signals.values() *)
PendingRead(t) ==
    /\ thr[t].pc = "pending_read"
    /\ thr' = [thr EXCEPT ![t].ret = Returned(thr[t].op, get_pending_signals(signals, thr[t].symbol)),
                          ![t].pc = "release"]
    /\ UNCHANGED <<lock, lin, trues>>
    /\ StoreUntouched

(* get_stats: pending = sum(1 for s in ... if s.status == "pending") *)
StatsPending(t) ==
    /\ thr[t].pc = "stats_pending"
    /\ thr' = [thr EXCEPT ![t].acc = <<get_stats(signals).pending>>,
                          ![t].pc = "stats_acknowledged"]
    /\ UNCHANGED <<lock, lin, trues>>
    /\ StoreUntouched

(* get_stats: acknowledged = sum(1 for s in ... if s.status == "acknowledged") *)
StatsAcknowledged(t) ==
    /\ thr[t].pc = "stats_acknowledged"
    /\ thr' = [thr EXCEPT ![t].acc = Append(thr[t].acc, get_stats(signals).acknowledged),
                          ![t].pc = "stats_total"]
    /\ UNCHANGED <<lock, lin, trues>>
    /\ StoreUntouched

(* get_stats: return {"total": len(self._signals), ...} *)
StatsTotal(t) ==
    /\ thr[t].pc = "stats_total"
    /\ thr' = [thr EXCEPT ![t].ret = Returned(thr[t].op, [total |-> Len(signals),
                                                          pending |-> thr[t].acc[1],
                                                          acknowledged |-> thr[t].acc[2]]),
                          ![t].acc = <<>>,
                          ![t].pc = "release"]
    /\ UNCHANGED <<lock, lin, trues>>
    /\ StoreUntouched

(* cleanup_old_signals: now = datetime.now() and the loop that fills to_remove *)
CleanupScan(t) ==
    /\ thr[t].pc = "cleanup_scan"
    /\ LET old(stored) == now - stored.created_at > _max_age
           to_remove == SelectSeq(signals, old)
       IN thr' = [thr EXCEPT ![t].t = now,
                             ![t].todo = [i \in 1..Len(to_remove) |-> to_remove[i].key],
                             ![t].acc = <<Len(to_remove)>>,
                             ![t].pc = "cleanup_delete"]
    /\ UNCHANGED <<lock, lin, trues>>
    /\ StoreUntouched

(* cleanup_old_signals: for msg_id in to_remove: del self._signals[msg_id] *)
CleanupDelete(t) ==
    /\ thr[t].pc = "cleanup_delete"
    /\ thr[t].todo # <<>>
    /\ signals' = dict_del(signals, Head(thr[t].todo))
    /\ trues' = [trues EXCEPT ![Head(thr[t].todo)] = 0]
    /\ thr' = [thr EXCEPT ![t].todo = Tail(thr[t].todo)]
    /\ UNCHANGED <<lock, lin>>
    /\ UNCHANGED <<persistence_path, file, now, failures, last, swept, acked, extVars>>

(* cleanup_old_signals: if to_remove: self._persist(); return len(to_remove) *)
CleanupReturn(t) ==
    /\ thr[t].pc = "cleanup_delete"
    /\ thr[t].todo = <<>>
    /\ \E outcome \in Outcomes(thr[t].acc[1] > 0) :
           /\ file' = _persist(persistence_path, file, signals, outcome)
           /\ Written(outcome)
    /\ thr' = [thr EXCEPT ![t].ret = Returned(thr[t].op, thr[t].acc[1]), ![t].acc = <<>>, ![t].pc = "release"]
    /\ UNCHANGED <<lock, lin, trues>>
    /\ UNCHANGED <<signals, persistence_path, now, last, swept, acked, extVars>>

(* the end of "with self._lock", the caller has the return value: the     *)
(* call takes its place in the order of whole calls, and lin is the store *)
(* those calls leave                                                      *)
Release(t) ==
    /\ thr[t].pc = "release"
    /\ lock' = RLock_release(lock, t)
    /\ lin' = Sequential(lin, thr[t]).signals
    /\ thr' = [thr EXCEPT ![t] = Idle]
    /\ trues' = IF thr[t].op = "add_signal" /\ thr[t].ret = Returned("add_signal", TRUE)
                THEN [trues EXCEPT ![thr[t].key] = trues[thr[t].key] + 1]
                ELSE trues
    /\ StoreUntouched

NextConc ==
    \/ \E t \in Threads : Call(t)
    \/ \E t \in Threads : Acquire(t)
    \/ \E t \in Threads : AddCheck(t)
    \/ \E t \in Threads : AddInsert(t)
    \/ \E t \in Threads : AckCheck(t)
    \/ \E t \in Threads : AckStatus(t)
    \/ \E t \in Threads : AckTime(t)
    \/ \E t \in Threads : StatusRead(t)
    \/ \E t \in Threads : PendingRead(t)
    \/ \E t \in Threads : StatsPending(t)
    \/ \E t \in Threads : StatsAcknowledged(t)
    \/ \E t \in Threads : StatsTotal(t)
    \/ \E t \in Threads : CleanupScan(t)
    \/ \E t \in Threads : CleanupDelete(t)
    \/ \E t \in Threads : CleanupReturn(t)
    \/ \E t \in Threads : Release(t)
    \/ Tick

SpecConc == Init /\ [][NextConc]_vars

(* where each thread stands in its call *)
progress == [t \in Threads |-> <<thr[t].pc, thr[t].todo>>]

(* The threads are scheduled fairly: a thread that can take its next      *)
(* statement takes it, and a thread that waits at "with self._lock" gets  *)
(* the lock if it is free again and again.                                *)
FairThreads ==
    \A t \in Threads :
        /\ SF_progress(Acquire(t))
        /\ WF_progress(AddCheck(t) \/ AddInsert(t) \/ AckCheck(t) \/ AckStatus(t) \/ AckTime(t)
                       \/ StatusRead(t) \/ PendingRead(t) \/ StatsPending(t)
                       \/ StatsAcknowledged(t) \/ StatsTotal(t) \/ CleanupScan(t)
                       \/ CleanupDelete(t) \/ CleanupReturn(t) \/ Release(t))

(* a thread calls an operation of the store for message 1, or one that    *)
(* takes no message                                                       *)
CallFirst(t) ==
    /\ Call(t)
    /\ thr'[t].key \in { <<>>, str(1) }

NextConcFair ==
    \/ \E t \in Threads : CallFirst(t)
    \/ \E t \in Threads : Acquire(t)
    \/ \E t \in Threads : AddCheck(t)
    \/ \E t \in Threads : AddInsert(t)
    \/ \E t \in Threads : AckCheck(t)
    \/ \E t \in Threads : AckStatus(t)
    \/ \E t \in Threads : AckTime(t)
    \/ \E t \in Threads : StatusRead(t)
    \/ \E t \in Threads : PendingRead(t)
    \/ \E t \in Threads : StatsPending(t)
    \/ \E t \in Threads : StatsAcknowledged(t)
    \/ \E t \in Threads : StatsTotal(t)
    \/ \E t \in Threads : CleanupScan(t)
    \/ \E t \in Threads : CleanupDelete(t)
    \/ \E t \in Threads : CleanupReturn(t)
    \/ \E t \in Threads : Release(t)
    \/ Tick

(* the application's store, with its persistence file, called by fairly   *)
(* scheduled threads                                                      *)
SpecConcFair == InitPersist /\ [][NextConcFair]_vars /\ FairThreads

(* -------------------------- extraction steps -------------------------- *)
(* SignalExtractor(config) with one of the configurations *)
InitExt ==
    /\ persistence_path = NoneStr
    /\ config \in Configs
    /\ min_confidence = config.min_confidence
    /\ app = "main"
    /\ InitStore

(* the next message arrives: what the pattern matcher will find in its    *)
(* text                                                                   *)
NewMessage ==
    /\ msg = NoMessage
    /\ msg' \in Messages
    /\ out' = NoOutcome
    /\ UNCHANGED <<config, min_confidence, earlier, sinkVars, storeVars, concVars>>

(* extract_signal(text, message_id, channel_username, timestamp), on a     *)
(* new message or once more on the one just extracted                     *)
ExtractSignal ==
    /\ msg # NoMessage
    /\ earlier = NoOutcome
    /\ earlier' = out
    /\ out' = extract_signal(msg, min_confidence, now)
    /\ UNCHANGED <<config, min_confidence, msg, sinkVars, storeVars, concVars>>

(* the clock advances after a call *)
ClockAfterCall ==
    /\ out # NoOutcome
    /\ earlier = NoOutcome
    /\ now < MaxTime
    /\ now' = now + 1
    /\ UNCHANGED <<signals, persistence_path, file, failures, last, swept, acked, concVars, extVars>>

(* the caller has dealt with the Signal or the ValueError and waits for   *)
(* the next message                                                       *)
MessageDone ==
    /\ msg # NoMessage
    /\ out # NoOutcome
    /\ msg' = NoMessage
    /\ out' = NoOutcome
    /\ earlier' = NoOutcome
    /\ UNCHANGED <<config, min_confidence, sinkVars, storeVars, concVars>>

NextExt ==
    \/ NewMessage
    \/ ExtractSignal
    \/ ClockAfterCall
    \/ MessageDone

SpecExt == InitExt /\ [][NextExt]_vars

(* --------------------------- message handler -------------------------- *)
(* PatternMatcher.is_signal: the text holds one of the keywords buy, sell, *)
(* entry, tp, sl, stop, target.  The messages of the model write their     *)
(* fields as "BUY", "SL 1990", "TP1: 2010", "TP 3pips".                    *)
is_signal(m) ==
    m.direction # NoneStr \/ m.stop_loss # None \/ m.take_profits # <<>> \/ m.tp_pips # NoPips

(* SignalExtractor.create_extraction_error: the ExtractionError of a message *)
create_extraction_error(m, error_reason) ==
    [message_id |-> m.message_id, channel_username |-> m.channel_username,
     error_type |-> "extraction", error_reason |-> error_reason]

(* the entry ErrorLogger.log_exception writes for an exception of the handler *)
log_exception(m, exception) ==
    [message_id |-> m.message_id, channel_username |-> m.channel_username,
     error_type |-> "exception", error_reason |-> exception]

(* CSVWriter.write_signal: the row is appended, or the write raises IOError *)
CsvOutcomes == IF failures < MaxWriteFailures THEN { "ok", "IOError" } ELSE { "ok" }

(* a complete, consistent signal of chA, and what a message can lack or    *)
(* get wrong: no symbol, a range of one price, take-profits on both sides  *)
(* of the entry, a SELL setup announced as BUY, neither stop-loss nor      *)
(* take-profit, and a message that is no signal at all                     *)
CompleteMessage ==
    [message_id |-> 1, channel_username |-> "chA", symbol |-> "XAUUSD", direction |-> "BUY",
     entry_price |-> 2000 * Unit, entry_price_min |-> None, entry_price_max |-> None,
     stop_loss |-> 1990 * Unit, take_profits |-> <<2010 * Unit, 2020 * Unit>>,
     tp_pips |-> NoPips]

HandlerTexts ==
    { CompleteMessage,
      [CompleteMessage EXCEPT !.symbol = NoneStr],
      [CompleteMessage EXCEPT !.entry_price = None, !.entry_price_min = 2000 * Unit,
                              !.entry_price_max = 2000 * Unit],
      [CompleteMessage EXCEPT !.take_profits = <<2010 * Unit, 1990 * Unit>>],
      [CompleteMessage EXCEPT !.stop_loss = 2010 * Unit,
                              !.take_profits = <<1990 * Unit, 1980 * Unit>>],
      [CompleteMessage EXCEPT !.stop_loss = None, !.take_profits = <<>>],
      [CompleteMessage EXCEPT !.symbol = NoneStr, !.direction = NoneStr, !.entry_price = None,
                              !.stop_loss = None, !.take_profits = <<>>] }

(* the messages that arrive, under the ids Telegram gives them *)
HandlerMessages == { [m EXCEPT !.message_id = message_id] : m \in HandlerTexts, message_id \in MsgIds }

(* the programs that run a message handler: main.py and the GUI's worker *)
Apps == { "main", "gui" }

(* the extractor and the store as the application builds them *)
InitApp ==
    /\ persistence_path = PersistencePath
    /\ config \in { c \in Configs : c.confidence_weights = DefaultConfig.confidence_weights }
    /\ min_confidence = config.min_confidence
    /\ InitStore
    /\ app \in Apps

(* on_new_message(message, chat), from the first line to the return.  A    *)
(* message that is no signal is skipped.  A Signal is written to the CSV   *)
(* file and then added to the store; an IOError of the CSV writer is       *)
(* caught by the outer handler, before add_signal.  On the ValueError of   *)
(* extract_signal, main.py builds an ExtractionError and logs it, the      *)
(* GUI's worker only logs a line.                                          *)
OnNewMessage ==
    \E m \in HandlerMessages : \E csv_outcome \in CsvOutcomes :
    \E o \in { IF is_signal(m) THEN extract_signal(m, min_confidence, now) ELSE NoOutcome } :
    \E r \in { IF o.kind = "Signal" /\ csv_outcome = "ok" THEN add_signal(signals, o.signal, now)
                ELSE [signals |-> signals, ret |-> FALSE, persist |-> FALSE] } :
        LET written == o.kind = "Signal" /\ csv_outcome = "ok"
            logged ==
                IF o.kind = "ValueError" /\ app = "main"
                THEN { create_extraction_error(m, o.reason) }
                ELSE IF o.kind = "Signal" /\ csv_outcome = "IOError" /\ app = "main"
                THEN { log_exception(m, "IOError") }
                ELSE {}
        IN \E outcome \in Outcomes(r.persist) :
            /\ o.kind # "Signal" => csv_outcome = "ok"
            /\ msg' = m
            /\ out' = o
            /\ earlier' = NoOutcome
            /\ csv' = IF written THEN csv \cup { m.message_id } ELSE csv
            /\ errors' = errors \cup logged
            /\ signals' = r.signals
            /\ file' = _persist(persistence_path, file, r.signals, outcome)
            /\ failures' = IF Failed(outcome) \/ csv_outcome = "IOError"
                           THEN failures + 1 ELSE failures
            /\ last' = [op |-> "on_new_message", arg |-> m.message_id,
                        ret |-> [add_signal |-> IF written THEN <<r.ret>> ELSE <<>>,
                                 errors |-> logged],
                        resp |-> NoneStr]
            /\ UNCHANGED <<persistence_path, now, swept, acked, concVars, config, min_confidence, app>>

NextApp ==
    \/ OnNewMessage

SpecApp == InitApp /\ [][NextApp]_vars

(* ------------------------------ claims -------------------------------- *)
Age(stored) == now - stored.created_at

(* C1: add_signal of a signal whose message_id the store does not hold     *)
(* returns True and creates a pending entry for it, keeping every other    *)
(* entry; add_signal of a signal whose message_id the store holds returns  *)
(* False and leaves the whole store as it was, acknowledged or not.        *)
C1_AddSignalDeduplicates ==
    [][ last'.op = "add" =>
          LET k == str(last'.arg.message_id) IN
          IF k \in Keys(signals)
          THEN /\ last'.ret = FALSE
               /\ signals' = signals
          ELSE /\ last'.ret = TRUE
               /\ Keys(signals') = Keys(signals) \cup { k }
               /\ Stored(signals', k).status = "pending"
               /\ Stored(signals', k).signal = last'.arg
               /\ \A j \in Keys(signals) : Stored(signals', j) = Stored(signals, j)
      ]_vars

(* C1 witness: a second signal with the id of an acknowledged entry, from  *)
(* another channel, has just been refused.                                 *)
C1_Witness ==
    /\ last.op = "add"
    /\ last.ret = FALSE
    /\ Len(signals) = 2
    /\ LET stored == Stored(signals, str(last.arg.message_id)) IN
       /\ stored.status = "acknowledged"
       /\ stored.signal.channel_username # last.arg.channel_username

(* C2: what get_pending_signals(symbol) returned holds exactly one record  *)
(* for each stored entry that is pending and, under a symbol filter, has   *)
(* that symbol, and no record for any other key, swept keys included.      *)
C2_PendingExactly ==
    last.op = "get" =>
        LET symbol == last.arg
            wanted(k) ==
                /\ k \in Keys(signals)
                /\ Stored(signals, k).status = "pending"
                /\ (symbol = NoneStr \/ Stored(signals, k).signal.symbol = symbol)
            hits(k) == { i \in 1..Len(last.ret) : last.ret[i].message_id = k }
        IN /\ \A i \in 1..Len(last.ret) : wanted(last.ret[i].message_id)
           /\ \A k \in Keys(signals) \cup swept \cup AckKeys :
                  Cardinality(hits(k)) = IF wanted(k) THEN 1 ELSE 0
           /\ \A i \in 1..Len(last.ret) :
                  LET signal == Stored(signals, last.ret[i].message_id).signal IN
                  /\ last.ret[i].symbol = signal.symbol
                  /\ last.ret[i].channel = signal.channel_username
                  /\ last.ret[i].take_profits = signal.take_profits
           /\ last.resp.body.count = Len(last.ret)

(* C2 witness: a filtered read returned one record while an acknowledged   *)
(* entry with the filter's symbol is stored.                               *)
C2_Witness ==
    /\ last.op = "get"
    /\ last.arg = "XAUUSD"
    /\ Len(last.ret) = 1
    /\ \E i \in 1..Len(signals) :
           signals[i].status = "acknowledged" /\ signals[i].signal.symbol = "XAUUSD"

(* C3: acknowledge_signal(key) of an absent key returns False, changes     *)
(* neither store nor file, and the endpoint answers 404; of a present key  *)
(* it returns True, makes that entry acknowledged at the current time,     *)
(* keeps every other entry, and the endpoint answers 200 with              *)
(* {status: acknowledged, message_id}.                                     *)
C3_Acknowledge ==
    [][ last'.op = "ack" =>
          LET k == last'.arg IN
          IF k \notin Keys(signals)
          THEN /\ last'.ret = FALSE
               /\ signals' = signals
               /\ file' = file
               /\ last'.resp.code = 404
          ELSE /\ last'.ret = TRUE
               /\ Keys(signals') = Keys(signals)
               /\ Stored(signals', k) =
                      [Stored(signals, k) EXCEPT !.status = "acknowledged",
                                                 !.acknowledged_at = now]
               /\ \A j \in Keys(signals) \ { k } : Stored(signals', j) = Stored(signals, j)
               /\ last'.resp = [code |-> 200,
                                body |-> [status |-> "acknowledged", message_id |-> k]]
      ]_vars

(* C3 witness: an acknowledge has succeeded beside a second, pending entry *)
C3_Witness ==
    /\ last.op = "ack"
    /\ last.ret = TRUE
    /\ Len(signals) = 2
    /\ \E i \in 1..Len(signals) : signals[i].key # last.arg /\ signals[i].status = "pending"

(* C4: a sweep at time now removes exactly the entries older than max_age, *)
(* pending or acknowledged, keeps the others as they are, returns the      *)
(* number removed, and what get_pending_signals() returns right after it   *)
(* holds no entry that was older than max_age.                             *)
C4_SweepRemovesOld ==
    [][ last'.op = "cleanup" =>
          LET expired == { k \in Keys(signals) : Age(Stored(signals, k)) > _max_age }
              after == get_pending_signals(signals', NoneStr)
          IN /\ Keys(signals') = Keys(signals) \ expired
             /\ \A j \in Keys(signals') : Stored(signals', j) = Stored(signals, j)
             /\ last'.ret = Cardinality(expired)
             /\ \A i \in 1..Len(after) : after[i].message_id \notin expired
      ]_vars

(* C4 witness: a sweep removed one entry and kept another *)
C4_Witness ==
    /\ last.op = "cleanup"
    /\ last.ret = 1
    /\ Len(signals) = 1
    /\ Age(signals[1]) = _max_age

(* C5: get_pending_signals returns no entry older than max_age (as stated) *)
C5_ReadEnforcesExpiry ==
    last.op = "get" =>
        \A i \in 1..Len(last.ret) :
            Age(Stored(signals, last.ret[i].message_id)) <= _max_age

(* C6 as stated: a key that a sweep has removed is never in the store again *)
C6_NoResurrection ==
    \A k \in swept : k \notin Keys(signals)

(* C6 amended: a key that a sweep has removed comes back only through      *)
(* add_signal with that message_id, which returns True and stores a new    *)
(* pending entry created at the current time; and add_signal of a swept,   *)
(* absent key always re-admits it.                                         *)
C6_OnlyAddReadmits ==
    [][ \A k \in swept :
          k \notin Keys(signals) =>
              /\ k \in Keys(signals') =>
                     /\ last'.op = "add"
                     /\ str(last'.arg.message_id) = k
                     /\ last'.ret = TRUE
                     /\ Stored(signals', k).status = "pending"
                     /\ Stored(signals', k).created_at = now
                     /\ Stored(signals', k).acknowledged_at = None
              /\ (last'.op = "add" /\ str(last'.arg.message_id) = k) => k \in Keys(signals')
      ]_vars

(* C6 witness: a swept key is in the store again, just re-admitted *)
C6_Witness ==
    /\ last.op = "add"
    /\ last.ret = TRUE
    /\ str(last.arg.message_id) \in swept
    /\ str(last.arg.message_id) \in Keys(signals)

(* C7 (as stated): after a restart, every entry whose acknowledge returned *)
(* True and which is still younger than max_age is in the store with       *)
(* status acknowledged, whatever the snapshot write of that acknowledge    *)
(* did.                                                                    *)
C7_AckSurvivesRestart ==
    last.op = "restart" =>
        \A a \in acked :
            now - a.created_at < _max_age =>
                /\ a.key \in Keys(signals)
                /\ Stored(signals, a.key).status = "acknowledged"

(* the entry a snapshot record stands for, every persisted field kept *)
C8_Persisted(e) ==
    LET d == e.signal
        tps == <<d.take_profit_1, d.take_profit_2, d.take_profit_3, d.take_profit_4>>
        given(tp) == tp # None
    IN [key |-> e.key,
        signal |-> [message_id |-> d.message_id,
                    channel_username |-> d.channel_username,
                    symbol |-> d.symbol,
                    take_profits |-> SelectSeq(tps, given),
                    extracted_at |-> d.extracted_at[2]],
        status |-> e.status,
        created_at |-> e.created_at[2],
        acknowledged_at |-> IF e.acknowledged_at = <<>> THEN None ELSE e.acknowledged_at[2]]

(* C8 (as stated): a store built from a snapshot that _persist wrote holds *)
(* every persisted entry that is not older than max_age, under its key and *)
(* with its status, created_at, acknowledged_at and signal fields, and     *)
(* none of the entries older than max_age.                                 *)
C8_RestartRecovers ==
    (last.op = "restart" /\ file.state = "ok") =>
        LET persisted == [i \in 1..Len(file.data) |-> C8_Persisted(file.data[i])]
            notOlder(stored) == now - stored.created_at <= _max_age
        IN signals = SelectSeq(persisted, notOlder)

(* C9: the calls of the store's operations by concurrent threads exclude   *)
(* each other under the store's lock, and every interleaving equals the    *)
(* whole calls run one after another in the order they leave the lock:     *)
(* with the lock free the store is what that order leaves, every call      *)
(* returns what it returns in that order (so no read sees half of a        *)
(* mutation), and of the add_signal calls for one message_id only one      *)
(* returns True while the entry stays in the store.                        *)
C9_Linearizable ==
    /\ Cardinality({ t \in Threads : thr[t].pc \in Inside }) <= 1
    /\ \A t \in Threads : thr[t].pc \in Inside => lock.owner = t
    /\ lock.owner = NoneStr => signals = lin
    /\ \A t \in Threads :
           thr[t].pc = "release" =>
               thr[t].ret = Returned(thr[t].op, Sequential(lin, thr[t]).ret)
    /\ \A k \in AckKeys : trues[k] <= 1

(* C9 witness: of two overlapping add_signal calls for one message_id the  *)
(* first has returned True and the second is returning False               *)
C9_Witness ==
    \E t \in Threads :
        /\ thr[t].pc = "release"
        /\ thr[t].op = "add_signal"
        /\ thr[t].raced
        /\ thr[t].ret = Returned("add_signal", FALSE)
        /\ trues[thr[t].key] = 1

(* the final confidence of the message in hand: the score after the setup  *)
(* corrector, for the take-profits extract_signal settles on               *)
C10_FinalConfidence ==
    LET tps == IF out.kind = "Signal" THEN out.signal.take_profits ELSE
               IF msg.take_profits = <<>> /\ msg.tp_pips # NoPips
                      /\ Truthy(msg.entry_price_min) /\ Truthy(msg.entry_price_max)
                      /\ msg.direction # NoneStr
               THEN _calculate_tp_from_pips((msg.entry_price_min + msg.entry_price_max) \div 2,
                                            msg.direction, msg.tp_pips, msg.symbol)
               ELSE msg.take_profits
        fields == [symbol |-> msg.symbol, direction |-> msg.direction,
                   entry_price |-> msg.entry_price, entry_price_min |-> msg.entry_price_min,
                   entry_price_max |-> msg.entry_price_max, stop_loss |-> msg.stop_loss,
                   take_profits |-> tps]
    IN _validate_and_correct_setup(msg.direction, msg.entry_price, msg.entry_price_min,
                                   msg.entry_price_max, msg.stop_loss, tps,
                                   _calculate_confidence(fields, msg.channel_username)).confidence

(* C10: extract_signal returns a Signal exactly when the final confidence, *)
(* the score after the setup corrector, is at least min_confidence, and    *)
(* raises the confidence-threshold ValueError otherwise; a Signal that the *)
(* validator refuses is returned all the same, with the validator's        *)
(* message appended to its notes as a warning.                             *)
C10_ThresholdGate ==
    out.kind # "none" =>
        /\ out.kind = "Signal" <=> C10_FinalConfidence >= min_confidence
        /\ out.kind # "Signal" => out.kind = "ValueError" /\ out.reason = ThresholdError
        /\ out.kind = "Signal" =>
               LET signal == out.signal
                   notes == signal.extraction_notes
                   e == validate_signal(signal)
               IN /\ signal.confidence_score = C10_FinalConfidence
                  /\ e # "" => /\ Len(notes) >= 2
                               /\ notes[Len(notes) - 1] = "Validation warning: "
                               /\ notes[Len(notes)] = e
                  /\ e = "" => \A i \in 1..Len(notes) : notes[i] # "Validation warning: "

(* C10 witness: a Signal has been returned at the threshold itself although *)
(* the validator refused it                                                *)
C10_Witness ==
    /\ out.kind = "Signal"
    /\ out.signal.confidence_score = min_confidence
    /\ min_confidence = 75
    /\ validate_signal(out.signal) # ""

(* the entry reference of the message in hand: its single entry price, or  *)
(* the midpoint of its range; a price of 0 counts as no price             *)
C11_Ref ==
    IF msg.entry_price # None /\ msg.entry_price # 0 THEN msg.entry_price
    ELSE IF msg.entry_price_min \notin { None, 0 } /\ msg.entry_price_max \notin { None, 0 }
    THEN (msg.entry_price_min + msg.entry_price_max) \div 2
    ELSE None

(* how many of its take-profits are prices (above 0) on that side of the reference *)
C11_Above ==
    LET tps == resolved_take_profits(msg)
    IN Cardinality({ i \in 1..Len(tps) : tps[i] > 0 /\ tps[i] > C11_Ref })

C11_Below ==
    LET tps == resolved_take_profits(msg)
    IN Cardinality({ i \in 1..Len(tps) : tps[i] > 0 /\ tps[i] < C11_Ref })

(* its score before the corrector, and that score less 0.30 but not below 0 *)
C11_Score == _calculate_confidence(extracted_fields(msg), msg.channel_username)

C11_Lowered == IF C11_Score >= 30 THEN C11_Score - 30 ELSE 0

(* C11: direction correction.  For a BUY whose take-profit prices are all  *)
(* below the entry reference (at least one below, none above), the         *)
(* corrector turns the direction to SELL, lowers the confidence by exactly *)
(* 0.30, not below 0, and gives the corrective note if and only if the     *)
(* stop-loss is above the reference or absent; with a stop-loss that is    *)
(* present and not above the reference it keeps BUY and sets the           *)
(* confidence to 0.  SELL is the mirror image.  Present is what the code   *)
(* tests: a stop-loss of 0 is absent, a take-profit of 0 is not a price.   *)
(* A Signal that is returned carries the corrected direction and           *)
(* confidence.                                                             *)
C11_DirectionCorrection ==
    (out.kind # "none" /\ msg.direction # NoneStr /\ C11_Ref # None) =>
        LET sl == msg.stop_loss
            absent == sl = None \/ sl = 0
            after == corrected_setup(msg)
        IN /\ (msg.direction = "BUY" /\ C11_Below > 0 /\ C11_Above = 0) =>
                  IF absent \/ sl > C11_Ref
                  THEN after = [direction |-> "SELL", confidence |-> C11_Lowered,
                                notes |-> NoteBuyToSell]
                  ELSE after.direction = "BUY" /\ after.confidence = 0
                           /\ after.notes # NoteBuyToSell
           /\ (msg.direction = "SELL" /\ C11_Above > 0 /\ C11_Below = 0) =>
                  IF absent \/ sl < C11_Ref
                  THEN after = [direction |-> "BUY", confidence |-> C11_Lowered,
                                notes |-> NoteSellToBuy]
                  ELSE after.direction = "SELL" /\ after.confidence = 0
                           /\ after.notes # NoteSellToBuy
           /\ out.kind = "Signal" =>
                  /\ out.signal.direction = after.direction
                  /\ out.signal.confidence_score = after.confidence
                  /\ after.notes # "" => out.signal.extraction_notes[1] = after.notes

(* C11 witness: a BUY with both take-profits below its entry and the       *)
(* stop-loss above it has come back as a SELL, 0.30 lower                  *)
C11_Witness ==
    /\ out.kind = "Signal"
    /\ msg.direction = "BUY"
    /\ C11_Below = 2
    /\ C11_Above = 0
    /\ msg.stop_loss > C11_Ref
    /\ out.signal.direction = "SELL"
    /\ C11_Score = 100
    /\ out.signal.confidence_score = 70
    /\ out.signal.extraction_notes[1] = NoteBuyToSell

(* C12: contradiction zeroing.  Whenever the direction and an entry        *)
(* reference are known and the take-profits lie on both sides of the       *)
(* reference, at least one above and at least one below, the final         *)
(* confidence is 0, for BUY and for SELL, whatever the counts on each      *)
(* side, the stop-loss and the other fields.                               *)
C12_ContradictionZeroing ==
    (/\ out.kind # "none"
     /\ msg.direction \in { "BUY", "SELL" }
     /\ C11_Ref # None
     /\ C11_Above > 0
     /\ C11_Below > 0) =>
        /\ corrected_setup(msg).confidence = 0
        /\ out.kind = "Signal" => out.signal.confidence_score = 0

(* the notes with which the setup corrector sets the confidence to 0 *)
C13_ContradictoryNotes == { NoteBuyContradictory, NoteSellContradictory, NoteMixed }

(* C13: every message that the setup corrector marks contradictory, its    *)
(* confidence set to 0, is rejected by the threshold gate with the         *)
(* low-confidence error, for every configured min_confidence:              *)
(* extract_signal returns no Signal for it, the handler does not call      *)
(* add_signal for it, and no entry of the store holds such a Signal.       *)
C13_ContradictoryRejected ==
    /\ (last.op = "on_new_message" /\ out.kind # "none"
            /\ corrected_setup(msg).notes \in C13_ContradictoryNotes) =>
           /\ corrected_setup(msg).confidence = 0
           /\ out.kind = "ValueError"
           /\ out.reason = ThresholdError
           /\ last.ret.add_signal = <<>>
    /\ \A i \in 1..Len(signals) :
           \A n \in 1..Len(signals[i].signal.extraction_notes) :
               signals[i].signal.extraction_notes[n] \notin C13_ContradictoryNotes

(* the message in hand fails the structural validation: no symbol, no      *)
(* direction or one outside BUY and SELL, or no usable entry               *)
C14_StructuralFailure ==
    \/ msg.symbol = NoneStr
    \/ msg.direction \notin { "BUY", "SELL" }
    \/ msg.entry_price = None /\ (msg.entry_price_min = None \/ msg.entry_price_max = None)

(* C14: a message with a structural validation failure is never handed to *)
(* the Signal Store: the handling of that message ends in rejection,       *)
(* add_signal is not called for it and the store does not hold it.         *)
C14_StructuralFailureRejected ==
    (last.op = "on_new_message" /\ out.kind # "none" /\ C14_StructuralFailure) =>
        /\ out.kind = "ValueError"
        /\ last.ret.add_signal = <<>>
        /\ \A i \in 1..Len(signals) : signals[i].signal.symbol # ""

(* the weights of the configuration are not negative and their sum, with   *)
(* the channel bonus of the message's channel, is at most 1.0              *)
C15_WeightsWithinOne ==
    LET w == config.confidence_weights
        bonus == (w.channel_confidence * channel_confidence(msg.channel_username)) \div 100
    IN /\ \A k \in DOMAIN w : w[k] >= 0
       /\ channel_confidence(msg.channel_username) >= 0
       /\ w.symbol + w.direction + w.entry + w.stop_loss + w.take_profit + bonus <= 1000

(* C15: confidence bounds.  For every combination of present and absent   *)
(* fields and every channel, under weights that are not negative and sum,  *)
(* channel bonus included, to at most 1.0, the score that                  *)
(* _calculate_confidence returns and the final confidence after            *)
(* _validate_and_correct_setup lie in [0.0, 1.0], and so does the          *)
(* confidence of a Signal that is returned.                                *)
C15_ConfidenceBounds ==
    (out.kind # "none" /\ C15_WeightsWithinOne) =>
        /\ C11_Score >= 0
        /\ C11_Score <= 100
        /\ corrected_setup(msg).confidence >= 0
        /\ corrected_setup(msg).confidence <= 100
        /\ out.kind = "Signal" =>
               out.signal.confidence_score >= 0 /\ out.signal.confidence_score <= 100

(* C15 witness: a message of a channel without a multiplier of its own,    *)
(* with all five fields, has been scored 1.0 under the weights that give   *)
(* a tenth to the channel                                                  *)
C15_Witness ==
    /\ out.kind = "Signal"
    /\ config = ChannelConfig
    /\ C15_WeightsWithinOne
    /\ msg.channel_username \notin DOMAIN config.channel_confidence
    /\ C11_Score = 100
    /\ out.signal.confidence_score = 100

(* the sum of the weights of what the message in hand holds, in            *)
(* thousandths; a price of 0 is no price                                   *)
C16_Sum ==
    LET w == config.confidence_weights
        tps == resolved_take_profits(msg)
        price(x) == x # None /\ x # 0
        multiplier == IF msg.channel_username \in DOMAIN config.channel_confidence
                      THEN config.channel_confidence[msg.channel_username]
                      ELSE 100
    IN (IF msg.symbol # NoneStr THEN w.symbol ELSE 0)
     + (IF msg.direction # NoneStr THEN w.direction ELSE 0)
     + (IF price(msg.entry_price) \/ (price(msg.entry_price_min) /\ price(msg.entry_price_max))
        THEN w.entry ELSE 0)
     + (IF price(msg.stop_loss) THEN w.stop_loss ELSE 0)
     + (CASE Len(tps) >= 2 -> w.take_profit
          [] Len(tps) = 1 -> w.take_profit \div 2
          [] OTHER -> 0)
     + (IF w.channel_confidence > 0 THEN (w.channel_confidence * multiplier) \div 100 ELSE 0)

(* C16: the confidence score is a pure additive function of field          *)
(* presence: the symbol weight if a symbol is present, plus the direction  *)
(* weight if a direction is present, plus the entry weight if a single     *)
(* entry or a complete range is present, plus the stop-loss weight if a    *)
(* stop-loss is present, plus the take-profit weight times 1 for two or    *)
(* more take-profits, 1/2 for exactly one and 0 for none, plus the channel *)
(* weight times the channel's multiplier (1.0 for an unknown channel)      *)
(* when a channel weight is configured, rounded to two decimals: the score *)
(* is a whole number of hundredths within half a hundredth of that sum.    *)
(* A Signal that the corrector left alone carries this score.              *)
C16_AdditiveScore ==
    out.kind # "none" =>
        LET score == _calculate_confidence(extracted_fields(msg), msg.channel_username)
        IN /\ 10 * score - C16_Sum \in -5..5
           /\ (out.kind = "Signal" /\ corrected_setup(msg).notes = "") =>
                  out.signal.confidence_score = score

(* C16 witness: a message of chA, whose multiplier is 0.8, with symbol,    *)
(* direction, entry, stop-loss and one take-profit has been scored         *)
(* 0.2 + 0.2 + 0.2 + 0.14 + 0.08 + 0.1 x 0.8 = 0.90 and returned           *)
C16_Witness ==
    /\ out.kind = "Signal"
    /\ config = ChannelConfig
    /\ msg.channel_username = "chA"
    /\ Len(resolved_take_profits(msg)) = 1
    /\ C16_Sum = 900
    /\ out.signal.confidence_score = 90

(* the pip size of the message's symbol in units of 0.0001: 0.1 for gold,  *)
(* 0.01 for a JPY pair, 0.0001 otherwise                                   *)
C17_PipSize ==
    IF msg.symbol \in { "XAUUSD", "GOLD", NoneStr } THEN 1000
    ELSE IF msg.symbol = "USDJPY" THEN 100
    ELSE 1

(* entry reference plus the pips for BUY, minus the pips for SELL *)
C17_Price(pips) ==
    IF msg.direction = "BUY" THEN C11_Ref + pips * C17_PipSize
    ELSE C11_Ref - pips * C17_PipSize

(* C17: pip-based take-profits.  When a message gives its take-profits     *)
(* only as a pip offset (min_pips, optional max_pips) and the direction    *)
(* and an entry reference, a single entry price or the midpoint of a       *)
(* range, are known, extract_signal resolves take_profits to entry + pips  *)
(* x pip size for BUY and entry - pips x pip size for SELL; for BUY,       *)
(* single entry 2000, "TP 30-100pips", XAUUSD the result is                *)
(* [2003.0, 2010.0].                                                       *)
C17_PipTakeProfits ==
    (/\ out.kind # "none"
     /\ msg.tp_pips # NoPips
     /\ msg.direction \in { "BUY", "SELL" }
     /\ C11_Ref # None) =>
        LET expected == <<C17_Price(msg.tp_pips[1])>> \o
                        (IF msg.tp_pips[2] # None THEN <<C17_Price(msg.tp_pips[2])>> ELSE <<>>)
        IN /\ resolved_take_profits(msg) = expected
           /\ out.kind = "Signal" => out.signal.take_profits = expected

(* C18: every Signal returned by extract_signal that carries an entry      *)
(* range has entry_price_min strictly below entry_price_max, and no single *)
(* entry price beside the range; a range with min >= max is a hard         *)
(* failure, no such Signal is returned to the caller.                      *)
C18_RangeOrdered ==
    (/\ out.kind = "Signal"
     /\ out.signal.entry_price_min # None
     /\ out.signal.entry_price_max # None) =>
        /\ out.signal.entry_price_min < out.signal.entry_price_max
        /\ out.signal.entry_price = None

(* C19: determinism.  Two calls of extract_signal with the same text,      *)
(* message_id, channel and timestamp on the same configuration give the    *)
(* same outcome: both rejections with the same reason, or two Signals      *)
(* that agree on every field and on the confidence.                        *)
C19_Deterministic ==
    earlier # NoOutcome => out = earlier

(* C20: a rejected extraction is not fatal.  For every message whose       *)
(* extract_signal raised the rejection error, the handler has built one    *)
(* ExtractionError of that message with that reason and has routed it to   *)
(* the error sink, add_signal was not called for the message, and the      *)
(* handler has returned, so that the next message can be handled.          *)
C20_RejectionRouted ==
    (last.op = "on_new_message" /\ out.kind = "ValueError") =>
        /\ last.ret.errors = { create_extraction_error(msg, out.reason) }
        /\ last.ret.errors \subseteq errors
        /\ last.ret.add_signal = <<>>
        /\ ENABLED OnNewMessage

(* C21: a snapshot write that fails inside add_signal, acknowledge_signal  *)
(* or cleanup_old_signals reaches nobody and rolls nothing back: the call  *)
(* returns what it returns when the write succeeds (True, True, the number *)
(* removed) and the store in memory holds the new entry, the acknowledged  *)
(* entry or the swept dict, which get_pending_signals, get_signal_status   *)
(* and get_stats then report.                                              *)
C21_PersistFailureContained ==
    [][failures' > failures =>
        /\ last'.op \in { "add", "ack", "cleanup" }
        /\ last'.op = "add" =>
              LET k == str(last'.arg.message_id) IN
              /\ last'.ret = TRUE
              /\ k \notin Keys(signals)
              /\ signals' = Append(signals, StoredSignal(k, last'.arg, now))
              /\ get_stats(signals').total = Len(signals) + 1
              /\ get_signal_status(signals', k) = "pending"
              /\ \E i \in 1..Len(get_pending_signals(signals', NoneStr)) :
                     get_pending_signals(signals', NoneStr)[i].message_id = k
        /\ last'.op = "ack" =>
              LET k == last'.arg IN
              /\ last'.ret = TRUE
              /\ k \in Keys(signals)
              /\ Len(signals') = Len(signals)
              /\ \A i \in 1..Len(signals) :
                     signals'[i] = IF signals[i].key = k
                                   THEN [signals[i] EXCEPT !.status = "acknowledged",
                                                           !.acknowledged_at = now]
                                   ELSE signals[i]
              /\ get_signal_status(signals', k) = "acknowledged"
              /\ get_stats(signals').acknowledged >= 1
        /\ last'.op = "cleanup" =>
              /\ last'.ret = Len(signals) - Len(signals')
              /\ last'.ret > 0
              /\ \A i \in 1..Len(signals) :
                     Age(signals[i]) > _max_age <=> signals[i].key \notin Keys(signals')
              /\ get_stats(signals').total = Len(signals) - last'.ret
    ]_vars

(* an acknowledge has returned True and its snapshot write failed: the     *)
(* file does not hold what the memory holds                                *)
C21_Witness ==
    /\ last.op = "ack"
    /\ last.ret = TRUE
    /\ failures > 0
    /\ (file.state # "ok" \/ file.data # Snapshot(signals))
    /\ get_signal_status(signals, last.arg) = "acknowledged"

(* the notes the setup corrector can give *)
C22_CorrectorNotes ==
    { NoteBuyToSell, NoteSellToBuy, NoteBuyContradictory, NoteSellContradictory, NoteMixed }

(* every take-profit of the message in hand lies on the profitable side of *)
(* the entry reference for its direction, and there is at least one        *)
C22_AllProfitable ==
    LET tps == resolved_take_profits(msg)
    IN /\ msg.direction \in { "BUY", "SELL" }
       /\ C11_Ref # None
       /\ tps # <<>>
       /\ \A i \in 1..Len(tps) :
              IF msg.direction = "BUY" THEN tps[i] > C11_Ref ELSE tps[i] < C11_Ref

(* C22: the setup corrector returns the direction and the confidence it    *)
(* was given, with no note, whenever the direction is missing, or there is *)
(* no entry reference (no single price and no complete range), or there is *)
(* no take-profit, or all take-profits lie on the profitable side of the   *)
(* reference for the stated direction, wherever the stop-loss lies.  The   *)
(* threshold gate then sees the unpenalised score, and a message with all  *)
(* five fields and such a setup is returned as a Signal with that score.   *)
C22_ConsistentSetupUntouched ==
    out.kind # "none" =>
        LET tps == resolved_take_profits(msg)
            after == corrected_setup(msg)
            frame == \/ msg.direction = NoneStr
                     \/ C11_Ref = None
                     \/ tps = <<>>
                     \/ C22_AllProfitable
            complete == /\ msg.symbol # NoneStr
                        /\ Truthy(msg.stop_loss)
                        /\ C22_AllProfitable
        IN /\ frame =>
                 /\ after = [direction |-> msg.direction, confidence |-> C11_Score, notes |-> ""]
                 /\ out.kind = "Signal" <=> C11_Score >= min_confidence
                 /\ out.kind = "Signal" =>
                        /\ out.signal.direction = IF msg.direction = NoneStr THEN "" ELSE msg.direction
                        /\ out.signal.confidence_score = C11_Score
                        /\ \A n \in 1..Len(out.signal.extraction_notes) :
                               out.signal.extraction_notes[n] \notin C22_CorrectorNotes
           /\ complete => /\ out.kind = "Signal"
                          /\ out.signal.direction = msg.direction
                          /\ out.signal.confidence_score = C11_Score

(* C22 witness: a BUY with all five fields, both take-profits above the    *)
(* entry and the stop-loss above it too, has been returned as a BUY with   *)
(* the full score                                                          *)
C22_Witness ==
    /\ out.kind = "Signal"
    /\ msg.symbol # NoneStr
    /\ msg.direction = "BUY"
    /\ C22_AllProfitable
    /\ Len(msg.take_profits) = 2
    /\ Truthy(msg.stop_loss)
    /\ msg.stop_loss > C11_Ref
    /\ out.signal.direction = "BUY"
    /\ out.signal.confidence_score = 100
    /\ C11_Score = 100

(* what the validator's logger says of a ladder that does not move away    *)
(* from the entry                                                          *)
C23_LadderWarning == "TP ordering unusual"

(* C23: soft validation findings are notes and never block.  For every     *)
(* Signal returned with a direction and an entry, each of these findings   *)
(* that holds for it is recorded in its extraction_notes: the stop-loss on *)
(* the wrong side of the entry for its direction, a take-profit on the     *)
(* wrong side of the entry, a take-profit ladder that steps back towards   *)
(* the entry.                                                              *)
C23_SoftFindingsNoted ==
    (out.kind = "Signal" /\ out.signal.direction \in { "BUY", "SELL" }
                         /\ get_entry_average(out.signal) # None) =>
        LET signal == out.signal
            entry == get_entry_average(signal)
            tps == signal.take_profits
            buy == signal.direction = "BUY"
            noted(text) == \E n \in 1..Len(signal.extraction_notes) :
                               signal.extraction_notes[n] = text
            sl_wrong == /\ Truthy(signal.stop_loss)
                        /\ IF buy THEN signal.stop_loss > entry ELSE signal.stop_loss < entry
            tp_wrong == \E i \in 1..Len(tps) :
                            IF buy THEN tps[i] < entry ELSE tps[i] > entry
            ladder_back == \E i \in 1..(Len(tps) - 1) :
                               IF buy THEN tps[i + 1] < tps[i] ELSE tps[i + 1] > tps[i]
        IN /\ sl_wrong => noted(IF buy THEN "BUY signal: Stop loss should be below entry"
                                       ELSE "SELL signal: Stop loss should be above entry")
           /\ tp_wrong => noted(IF buy THEN "BUY signal: TP should be above entry"
                                       ELSE "SELL signal: TP should be below entry")
           /\ ladder_back => noted(C23_LadderWarning)

(* the keys of the entries of sigs, in the order of the dict *)
C24_KeyOrder(sigs) == [i \in 1..Len(sigs) |-> sigs[i].key]

(* C24: delivery order is arrival order.  An admitted signal goes behind   *)
(* every entry the store holds; acknowledge and sweep leave the entries    *)
(* that remain in the order they had; get_pending_signals returns the      *)
(* pending entries (of the symbol asked for) in the order of the store,    *)
(* which is thus the order of their admission.                             *)
C24_DeliveryOrder ==
    [][/\ (last'.op = "add" /\ last'.ret = TRUE) =>
              /\ C24_KeyOrder(signals') = Append(C24_KeyOrder(signals), str(last'.arg.message_id))
              /\ get_pending_signals(signals', NoneStr)
                     = Append(get_pending_signals(signals, NoneStr), _signal_to_mt5_dict(last'.arg))
       /\ (last'.op \in { "ack", "cleanup" } \/ (last'.op = "add" /\ last'.ret = FALSE)) =>
              LET remains(k) == k \in Keys(signals')
              IN C24_KeyOrder(signals') = SelectSeq(C24_KeyOrder(signals), remains)
       /\ last'.op = "get" =>
              LET asked(stored) ==
                      /\ stored.status = "pending"
                      /\ last'.arg \in { NoneStr, stored.signal.symbol }
                  pending == SelectSeq(signals, asked)
              IN /\ signals' = signals
                 /\ Len(last'.ret) = Len(pending)
                 /\ \A n \in 1..Len(pending) : last'.ret[n].message_id = pending[n].key
    ]_vars

(* C24 witness: message 2 was admitted before message 1, both are pending  *)
(* after a sweep has removed an older entry, and the read has returned     *)
(* message 2 first                                                         *)
C24_Witness ==
    /\ last.op = "get"
    /\ Len(last.ret) = 2
    /\ last.ret[1].message_id = str(2)
    /\ last.ret[2].message_id = str(1)
    /\ Len(signals) = 2
    /\ signals[1].created_at < signals[2].created_at
    /\ swept # {}

C26_StatusMonotone ==
    [][\A i \in 1..Len(signals) :
          (signals[i].status = "acknowledged" /\ signals[i].key \in Keys(signals')) =>
              LET before == signals[i]
                  after == Stored(signals', before.key)
              IN /\ after.status = "acknowledged"
                 /\ after.signal = before.signal
                 /\ after.created_at = before.created_at
                 /\ (last'.op = "ack" /\ last'.arg = before.key) =>
                        /\ last'.ret = TRUE
                        /\ after.acknowledged_at = now
                 /\ ~(last'.op = "ack" /\ last'.arg = before.key) =>
                        after.acknowledged_at = before.acknowledged_at
    ]_vars

(* C26 witness: add_signal for the message of an acknowledged entry has    *)
(* returned False at a later time, and the entry is acknowledged as before *)
C26_Witness ==
    /\ last.op = "add"
    /\ last.ret = FALSE
    /\ str(last.arg.message_id) \in Keys(signals)
    /\ Stored(signals, str(last.arg.message_id)).status = "acknowledged"
    /\ Stored(signals, str(last.arg.message_id)).acknowledged_at < now

(* C27: the deduplication key is the message_id alone.  add_signal of a    *)
(* signal whose message_id the store holds returns False and changes       *)
(* nothing, whatever the channel of the new signal and of the stored one,  *)
(* so the store never holds two entries for one message_id and what is     *)
(* delivered for it is the signal that came first.                         *)
C27_KeyIsMessageId ==
    [][last'.op = "add" =>
          LET k == str(last'.arg.message_id) IN
          /\ k \in Keys(signals) =>
                 /\ last'.ret = FALSE
                 /\ signals' = signals
                 /\ Stored(signals', k).signal.channel_username
                        = Stored(signals, k).signal.channel_username
          /\ k \notin Keys(signals) => last'.ret = TRUE
          /\ \A i, j \in 1..Len(signals') :
                 signals'[i].signal.message_id = signals'[j].signal.message_id => i = j
    ]_vars

(* C27 witness: message 1 of chB has been refused because message 1 of chA *)
(* is in the store, pending                                                *)
C27_Witness ==
    /\ last.op = "add"
    /\ last.ret = FALSE
    /\ last.arg.message_id = 1
    /\ last.arg.channel_username = "chB"
    /\ str(1) \in Keys(signals)
    /\ Stored(signals, str(1)).signal.channel_username = "chA"
    /\ Stored(signals, str(1)).status = "pending"

(* the store a restart would load if the snapshot of sigs were on the file *)
C28_Reloaded(sigs) ==
    _load_from_file(PersistencePath, [state |-> "ok", data |-> Snapshot(sigs)], now)

(* C28: sweep and load draw the line of expiry differently.  A sweep       *)
(* removes the entries whose age is greater than max_age and no other; a   *)
(* restart on a readable file keeps the entries whose age is less than     *)
(* max_age and no other.  An entry whose age is exactly max_age therefore  *)
(* survives the sweep and would not survive the load, and for every other  *)
(* age sweep and load agree.                                               *)
C28_ExpiryBoundaries ==
    [][/\ last'.op = "cleanup" =>
              \A i \in 1..Len(signals) :
                  signals[i].key \in Keys(signals') <=> Age(signals[i]) <= _max_age
       /\ (last'.op = "restart" /\ file.state = "ok") =>
              /\ \A i \in 1..Len(file.data) :
                     file.data[i].key \in Keys(signals')
                         <=> now - fromisoformat(file.data[i].created_at) < _max_age
              /\ Keys(signals') \subseteq { file.data[i].key : i \in 1..Len(file.data) }
       /\ last'.op \in { "cleanup", "restart" } =>
           \A i \in 1..Len(signals) :
              LET stored == signals[i]
                  swept_away == stored.key \notin Keys(cleanup_old_signals(signals, now).signals)
                  not_loaded == stored.key \notin Keys(C28_Reloaded(signals))
              IN IF Age(stored) = _max_age
                 THEN ~swept_away /\ not_loaded
                 ELSE swept_away <=> not_loaded
    ]_vars

(* C28 witness: an entry whose age is exactly max_age has been through a   *)
(* sweep, which removed nothing, is on the file, and the restart that      *)
(* followed has not loaded it                                              *)
C28_Witness ==
    /\ last.op = "restart"
    /\ file.state = "ok"
    /\ swept = {}
    /\ \E i \in 1..Len(file.data) :
           /\ now - fromisoformat(file.data[i].created_at) = _max_age
           /\ file.data[i].key \notin Keys(signals)

(* the setup corrector turns the direction of the message in hand *)
C29_Flipped ==
    /\ msg.direction \in { "BUY", "SELL" }
    /\ corrected_setup(msg).direction # msg.direction

(* C29: under the canonical configuration (weights 0.25, 0.25, 0.20, 0.15, *)
(* 0.15, no channel weight, min_confidence 0.75) a message whose direction *)
(* the setup corrector turns has a final confidence of at most 0.70 and is *)
(* rejected by the threshold gate: the handler gets the ValueError, does   *)
(* not call add_signal, and the store never holds a signal with a          *)
(* corrected direction.                                                    *)
C29_FlippedNeverAccepted ==
    config = DefaultConfig =>
        /\ (last.op = "on_new_message" /\ C29_Flipped) =>
               /\ corrected_setup(msg).confidence <= 70
               /\ out = [kind |-> "ValueError", reason |-> ThresholdError]
               /\ last.ret.add_signal = <<>>
        /\ \A i \in 1..Len(signals) :
               \A n \in 1..Len(signals[i].signal.extraction_notes) :
                   signals[i].signal.extraction_notes[n] \notin { NoteBuyToSell, NoteSellToBuy }

(* C29 witness: under the canonical configuration a complete BUY message   *)
(* with its take-profits below the entry and its stop-loss above it, which *)
(* the corrector turns to SELL at 0.70, has been rejected and logged       *)
C29_Witness ==
    /\ config = DefaultConfig
    /\ last.op = "on_new_message"
    /\ C29_Flipped
    /\ corrected_setup(msg) = [direction |-> "SELL", confidence |-> 70, notes |-> NoteBuyToSell]
    /\ out.kind = "ValueError"
    /\ last.ret.add_signal = <<>>
    /\ create_extraction_error(msg, ThresholdError) \in errors

(* the setup corrector applied once more: to the direction and confidence  *)
(* it returned for the message in hand, with the same entry, stop-loss and *)
(* take-profits                                                            *)
C30_Again ==
    LET once == corrected_setup(msg)
    IN _validate_and_correct_setup(once.direction, msg.entry_price, msg.entry_price_min,
                                   msg.entry_price_max, msg.stop_loss,
                                   resolved_take_profits(msg), once.confidence)

(* C30: the setup corrector is idempotent on its result.  Applied to the   *)
(* direction and confidence it returned, it returns that direction and     *)
(* that confidence: a direction it turned is not turned back, the 0.30 is  *)
(* not taken off twice and a confidence it set to 0 stays 0.               *)
C30_CorrectorIdempotent ==
    out.kind # "none" =>
        LET once == corrected_setup(msg)
        IN /\ C30_Again.direction = once.direction
           /\ C30_Again.confidence = once.confidence
           /\ once.direction # msg.direction => C30_Again.notes = ""
           /\ once.confidence = 0 => C30_Again.confidence = 0
           /\ out.kind = "Signal" =>
                  /\ C30_Again.confidence = out.signal.confidence_score
                  /\ out.signal.direction = IF C30_Again.direction = NoneStr THEN ""
                                            ELSE C30_Again.direction

(* C30 witness: a SELL with its take-profits above the entry has come back *)
(* as a BUY at 0.70, and the corrector applied to that BUY at 0.70 gives   *)
(* BUY at 0.70 with no note                                                *)
C30_Witness ==
    /\ out.kind = "Signal"
    /\ msg.direction = "SELL"
    /\ out.signal.direction = "BUY"
    /\ out.signal.confidence_score = 70
    /\ C11_Score = 100
    /\ C30_Again = [direction |-> "BUY", confidence |-> 70, notes |-> ""]

====
